---- MODULE Spec2Model ----
(***************************************************************************)
(* CupruxOS kernel memory core: the buddy physical frame allocator         *)
(* (kernel/src/mm/pmm.rs) and the virtual memory manager                   *)
(* (kernel/src/mm/vmm.rs).                                                 *)
(***************************************************************************)
EXTENDS Integers, Sequences, FiniteSets, TLC

VARIABLES
    pmm,         \* PMM: the BuddyAllocator behind the global mutex
    FREE_BYTES,  \* FREE_BYTES statistic (AtomicU64)
    TOTAL_BYTES, \* TOTAL_BYTES statistic (AtomicU64)
    live,        \* blocks handed out by alloc_pages and not yet freed: <<addr, order>>
    held,        \* blocks taken before the run starts by owners that keep them
    freed,       \* blocks given back by free_pages since the last successful alloc_pages
    last,        \* the most recent call and what it returned
    calls,       \* number of calls made so far
    s2,          \* the calls made since pmm::init, while they follow scenario S2
    mem,         \* physical frames the kernel has written: frame |-> (index |-> entry);
                 \* a frame outside DOMAIN mem holds whatever it held before
    spaces,      \* the address spaces: id |-> [pml4, vmas]
    halt,        \* "run", or "panic" once the kernel has panicked
    expect,      \* <<pml4, v, p, f>> for each map(v, p, f) not yet followed by
                 \* an unmap or a map of the same page of the same space
    unmapped,    \* <<pml4, v>> for each unmap(v) not yet followed by a map of v
    anon,        \* <<pml4, start, size, flags>> of every map_anonymous call made
    vlast,       \* the most recent VMM call and what it returned
    regs,        \* <<space id, start, end, returned, call>> of every map_anonymous,
                 \* map_shared and add_vma call made
    life,        \* <<space id, free_memory() before AddressSpace::new, "live" or
                 \* "dropped">> of every address space made during the run
    KERNEL_SPACE, \* the KERNEL_SPACE static: NoSpace until vmm::init has run
    conv,        \* a direct-map conversion: the address given and what came back
    heap,        \* the HEAP static, HEAP_USED and the FreeNode links in memory
    hp,          \* the heap's callers: the allocations they hold and their calls
    cpu,         \* descriptor tables, interrupt controllers and the interrupt flag
    ctx          \* the contexts inside alloc_pages / free_pages and where they are

pmmVars == <<pmm, FREE_BYTES, TOTAL_BYTES, live, held, freed, last, calls, s2>>
vmmVars == <<mem, spaces, halt, expect, unmapped, anon, vlast, regs, life, KERNEL_SPACE, conv>>
vars == <<pmm, FREE_BYTES, TOTAL_BYTES, live, held, freed, last, calls, s2,
          mem, spaces, halt, expect, unmapped, anon, vlast, regs, life, KERNEL_SPACE, conv,
          heap, hp, cpu, ctx>>
\* the state outside the PMM and the VMM
rest == <<heap, hp, cpu, ctx>>

\* ---------------------------------------------------------------- bounds
\* at most this many alloc_pages / free_pages calls are made in one run
MaxCalls == 4
\* at most this many calls in a run of scenario S2
S2MaxCalls == 9
\* at most this many calls in a run of the VMM
VmmMaxCalls == 5
\* at most this many calls in a run of the page-fault path
FaultMaxCalls == 5
\* at most this many calls in a run that starts after vmm::init
KernelMaxCalls == 4
\* at most this many calls in a run of the heap
HeapMaxCalls == 3
\* at most this many calls in a run of the heap's 64-byte class
LifoMaxCalls == 12
\* the number of contexts calling the PMM at the same time
NumContexts == 2
\* at most this many steps of the PMM's concurrent callers in one run
ConcMaxCalls == 8
\* at most this many interrupts, exceptions, accesses and calls in a run of
\* the booted machine
ArchMaxCalls == 5

\* ------------------------------------------------------------- constants
PAGE_SIZE == 4096
MAX_ORDER == 11
MAX_PAGES == 1024 * 1024
\* the single region pmm::init registers: 1 MiB .. 17 MiB
RegionStart == 1048576
RegionSize == 16 * 1024 * 1024

\* Option::None for Option<PhysAddr> / Option<usize>
None == -1

Pow2(n) == 2 ^ n
Max(a, b) == IF a >= b THEN a ELSE b
MinOf(S) == CHOOSE x \in S : \A y \in S : x <= y
MaxOf(S) == CHOOSE x \in S : \A y \in S : x >= y

Orders == 0 .. (MAX_ORDER - 1)

\* ------------------------------------------------------------------ Bitmap
\* A Bitmap is [bits |-> set of the indices whose bit is 1, len |-> bits in use]
BitmapNew == [bits |-> {}, len |-> 0]

BitmapGet(bm, idx) == idx \in bm.bits

BitmapSet(bm, idx, val) ==
    IF val THEN [bm EXCEPT !.bits = @ \cup {idx}]
           ELSE [bm EXCEPT !.bits = @ \ {idx}]

\* find_free: walk the 64-bit words upwards; in the first nonzero word whose
\* lowest set bit lies below len, return that bit.
find_free(bm) ==
    LET lowest == {i \in bm.bits : \A j \in bm.bits : (j \div 64 = i \div 64) => j >= i}
        ok     == {i \in lowest : i < bm.len}
    IN IF ok = {} THEN None ELSE MinOf(ok)

\* ---------------------------------------------------------- BuddyAllocator
BuddyNew ==
    [free        |-> [o \in Orders |-> BitmapNew],
     total_pages |-> 0,
     free_pages  |-> 0,
     mem_start   |-> 0]

align_up(addr, align) == ((addr + align - 1) \div align) * align
align_down(addr, align) == (addr \div align) * align

\* one pass of merge_all's inner loop over a single order: every even i with
\* i + 1 < len and both bits set is replaced by bit i / 2 one order up
MergeOrder(b, order) ==
    LET bm      == b.free[order]
        pairs   == {i \in bm.bits : i % 2 = 0 /\ i + 1 < bm.len /\ (i + 1) \in bm.bits}
        parents == {i \div 2 : i \in pairs}
        up      == b.free[order + 1]
    IN IF pairs = {} THEN b
       ELSE [b EXCEPT
               !.free[order]     = [bm EXCEPT !.bits = @ \ (pairs \cup {i + 1 : i \in pairs})],
               !.free[order + 1] = [bits |-> up.bits \cup parents,
                                    len  |-> Max(up.len, MaxOf(parents) + 1)]]

RECURSIVE MergeFrom(_, _)
MergeFrom(b, order) ==
    IF order >= MAX_ORDER - 1 THEN b
    ELSE MergeFrom(MergeOrder(b, order), order + 1)

merge_all(b) == MergeFrom(b, 0)

add_region(b, start0, size) ==
    LET start == align_up(start0, PAGE_SIZE)
        end   == align_down(start + size, PAGE_SIZE)
    IN IF start >= end THEN b
       ELSE
         LET ms    == IF b.mem_start = 0 THEN start ELSE b.mem_start
             n     == (end - start) \div PAGE_SIZE
             first == (start - ms) \div PAGE_SIZE
             pfns  == first .. (first + n - 1)
             b1    == [b EXCEPT
                         !.mem_start   = ms,
                         !.free[0]     = [bits |-> @.bits \cup pfns,
                                          len  |-> Max(@.len, first + n)],
                         !.free_pages  = @ + n,
                         !.total_pages = @ + n]
         IN merge_all(b1)

\* a split that forgets to give the right halves back
SplitLoseRight(b, current_order, current_idx, order) ==
    [b |-> b, idx |-> current_idx * Pow2(current_order - order)]

\* the split loop of alloc: the left half stays ours, the right half is freed
RECURSIVE Split(_, _, _, _)
Split(b, current_order, current_idx, order) ==
    IF current_order > order
    THEN LET co    == current_order - 1
             left  == current_idx * 2
             right == left + 1
             b1    == [b EXCEPT !.free[co] =
                          [bits |-> @.bits \cup {right},
                           len  |-> Max(@.len, right + 1)]]
         IN Split(b1, co, left, order)
    ELSE [b |-> b, idx |-> current_idx]

\* a claim that leaves the block's free bit set
TakeBlockKeep(b, found_order, idx) == b

\* the block alloc claims at found_order
TakeBlock(b, found_order, idx) ==
    [b EXCEPT !.free[found_order] = BitmapSet(@, idx, FALSE)]

\* BuddyAllocator::alloc: [b |-> allocator afterwards, ret |-> address or None]
\* a search range clamped to the largest order instead of being empty
SearchOrdersClamped(order) ==
    {o \in Orders : o >= order \/ o = MAX_ORDER - 1}

\* the range (order..MAX_ORDER) alloc searches
SearchOrders(order) == {o \in Orders : o >= order}

alloc(b, order) ==
    LET cand == {o \in SearchOrders(order) : find_free(b.free[o]) # None}
    IN IF cand = {} THEN [b |-> b, ret |-> None]
       ELSE
         LET found_order == MinOf(cand)
             idx         == find_free(b.free[found_order])
             s           == Split(TakeBlock(b, found_order, idx), found_order, idx, order)
             pages_offset == s.idx * Pow2(order)
             phys        == b.mem_start + pages_offset * PAGE_SIZE
         IN [b   |-> [s.b EXCEPT !.free_pages = @ - Pow2(order)],
             ret |-> phys]

\* the buddy test of the merge loop in free
BuddyIsFree(b, order, idx) ==
    LET buddy == IF idx % 2 = 0 THEN idx + 1 ELSE idx - 1
    IN buddy < b.free[order].len /\ BitmapGet(b.free[order], buddy)

\* a free that never merges
CoalesceNever(b, order, idx) == b

RECURSIVE Coalesce(_, _, _)
Coalesce(b, order, idx) ==
    IF order < MAX_ORDER - 1 /\ BuddyIsFree(b, order, idx)
    THEN LET buddy == IF idx % 2 = 0 THEN idx + 1 ELSE idx - 1
             up    == idx \div 2
             b1    == [b EXCEPT
                         !.free[order]     = [@ EXCEPT !.bits = @ \ {idx, buddy}],
                         !.free[order + 1] = [bits |-> @.bits \cup {up},
                                              len  |-> Max(@.len, up + 1)]]
         IN Coalesce(b1, order + 1, up)
    ELSE b

\* BuddyAllocator::free
free(b, addr, order) ==
    LET pages_offset == (addr - b.mem_start) \div PAGE_SIZE
        idx          == pages_offset \div Pow2(order)
        b1           == [b EXCEPT !.free[order] = BitmapSet(@, idx, TRUE),
                                  !.free_pages  = @ + Pow2(order)]
    IN Coalesce(b1, order, idx)

\* ---------------------------------------------------------------- pmm::init
PmmInit == add_region(BuddyNew, RegionStart, RegionSize)

\* the byte count alloc_pages subtracts from, and free_pages adds to, FREE_BYTES
AllocBytes(order) == PAGE_SIZE * Pow2(order)
\* a free_pages that credits one page whatever the order
FreeBytesOnePage(order) == PAGE_SIZE
FreeBytes(order) == PAGE_SIZE * Pow2(order)

free_memory == FREE_BYTES
total_memory == TOTAL_BYTES

\* ===================================================================== VMM
\* PageFlags, as the set of the bit positions that are 1
PRESENT == 0
WRITABLE == 1
USER == 2
GLOBAL == 8
NO_EXEC == 63
KERNEL_RW == {PRESENT, WRITABLE, GLOBAL, NO_EXEC}
USER_RW == {PRESENT, WRITABLE, USER, NO_EXEC}
USER_EX == {PRESENT, USER}

\* capacity of AddressSpace::vmas
VMA_CAP == 64

\* ----------------------------------------------------------- PageTableEntry
\* An entry is [phys |-> bits 12..51, flags |-> the flag bits]; PageTableEntry(0)
\* is ZeroEntry.  Physical addresses in the model stay below 2^31, so the masks
\* 0x000F_FFFF_FFFF_F000 and !0xFFF only clear the low twelve bits.
ZeroEntry == [phys |-> 0, flags |-> {}]

PageTableEntryNew(phys, flags) ==
    [phys |-> (phys \div PAGE_SIZE) * PAGE_SIZE, flags |-> flags]

is_present(e) == PRESENT \in e.flags

phys_addr(e) == e.phys

\* --------------------------------------------- frames seen through the direct map
\* entries[idx] of the table in frame
ReadEntry(m, frame, idx) ==
    IF frame \in DOMAIN m /\ idx \in DOMAIN m[frame] THEN m[frame][idx] ELSE ZeroEntry

\* entries[idx] = e
WriteEntry(m, frame, idx, e) ==
    LET old == IF frame \in DOMAIN m THEN m[frame] ELSE <<>>
        new == IF e = ZeroEntry
               THEN [i \in DOMAIN old \ {idx} |-> old[i]]
               ELSE [i \in DOMAIN old \cup {idx} |-> IF i = idx THEN e ELSE old[i]]
    IN [f \in DOMAIN m \cup {frame} |-> IF f = frame THEN new ELSE m[f]]

\* a page-fault path that maps the frame without clearing it
WriteBytesSkipped(m, frame) == m

\* ptr.write_bytes(0, PAGE_SIZE) on the frame
WriteBytesZero(m, frame) ==
    [f \in DOMAIN m \cup {frame} |-> IF f = frame THEN <<>> ELSE m[f]]

\* PageTable::zero on the table in frame
PageTableZero(m, frame) ==
    [f \in DOMAIN m \cup {frame} |-> IF f = frame THEN <<>> ELSE m[f]]

\* every byte of the frame is known to be zero
FrameIsZero(m, frame) == frame \in DOMAIN m /\ DOMAIN m[frame] = {}

\* the frames of a block handed to a caller hold whatever the caller writes
OwnerWrites(m, addr, order) ==
    LET frames == {addr + i * PAGE_SIZE : i \in 0 .. (Pow2(order) - 1)}
    IN [f \in DOMAIN m \ frames |-> m[f]]

\* ------------------------------------------------------------ kernel state
\* The operations below thread k = [pmm, fb, mem, halt, expect, unmapped]:
\* the allocator, FREE_BYTES, the frames, the panic flag and the two records
\* of map / unmap calls.
CurK ==
    [pmm |-> pmm, fb |-> FREE_BYTES, mem |-> mem, halt |-> halt,
     expect |-> expect, unmapped |-> unmapped]

\* an alloc_page that charges FREE_BYTES before it knows the outcome
KAllocPageCharged(k) ==
    [k   |-> [k EXCEPT !.pmm = alloc(k.pmm, 0).b, !.fb = @ - AllocBytes(0)],
     ret |-> alloc(k.pmm, 0).ret]

\* pmm::alloc_page() called from inside the kernel: [k, ret]
KAllocPage(k) ==
    LET Taken(r) ==
            [k   |-> [k EXCEPT !.pmm = r.b,
                               !.fb  = IF r.ret = None THEN @ ELSE @ - AllocBytes(0)],
             ret |-> r.ret]
    IN Taken(alloc(k.pmm, 0))

\* ----------------------------------------------------- page-table indices
pml4_idx(addr) == ((addr \div Pow2(30)) \div Pow2(9)) % 512
pdpt_idx(addr) == (addr \div Pow2(30)) % 512
pd_idx(addr) == (addr \div Pow2(21)) % 512
pt_idx(addr) == (addr \div Pow2(12)) % 512

PageOf(addr) == (addr \div PAGE_SIZE) * PAGE_SIZE

\* the four indices of a walk: <<pml4, pdpt, pd, pt>>
Indices(addr) == <<pml4_idx(addr), pdpt_idx(addr), pd_idx(addr), pt_idx(addr)>>

\* ------------------------------------------------------------- 64-bit words
\* Addresses that do not fit the model's integers are kept as u64 words
\* <<l0, l1, l2, l3>> of sixteen bits each, least significant first.
Limb == Pow2(16)

\* the u64 of an address below 2^31
U64(n) == <<n % Limb, (n \div Limb) % Limb, 0, 0>>

\* a + b on u64: the wrapped sum and the carry out of bit 63
AddU64(a, b) ==
    LET s0 == a[1] + b[1]
        s1 == a[2] + b[2] + (s0 \div Limb)
        s2a == a[3] + b[3] + (s1 \div Limb)
        s3 == a[4] + b[4] + (s2a \div Limb)
    IN [val |-> <<s0 % Limb, s1 % Limb, s2a % Limb, s3 % Limb>>, carry |-> s3 \div Limb]

\* a - b on u64: the wrapped difference and the borrow out of bit 63
SubU64(a, b) ==
    LET d0 == a[1] - b[1]
        d1 == a[2] - b[2] - (IF d0 < 0 THEN 1 ELSE 0)
        d2 == a[3] - b[3] - (IF d1 < 0 THEN 1 ELSE 0)
        d3 == a[4] - b[4] - (IF d2 < 0 THEN 1 ELSE 0)
    IN [val |-> <<(d0 + Limb) % Limb, (d1 + Limb) % Limb,
                  (d2 + Limb) % Limb, (d3 + Limb) % Limb>>,
        carry |-> IF d3 < 0 THEN 1 ELSE 0]

\* (addr >> 39) & 0x1FF, (addr >> 30) & 0x1FF, (addr >> 21) & 0x1FF and
\* (addr >> 12) & 0x1FF of a u64 word
Indices64(v) ==
    <<v[3] \div 128,
      (v[3] % 128) * 4 + (v[2] \div 16384),
      (v[2] \div 32) % 512,
      (v[2] % 32) * 16 + (v[1] \div 4096)>>

\* a get_or_create that carries on without a table when the PMM has no frame
GetOrCreateSilent(k, frame, idx) ==
    LET e == ReadEntry(k.mem, frame, idx)
        Linked(r, ne) ==
            [k     |-> [r.k EXCEPT !.mem =
                          WriteEntry(PageTableZero(@, r.ret), frame, idx, ne)],
             table |-> phys_addr(ne)]
        Created(r) ==
            IF r.ret = None
            THEN [k |-> r.k, table |-> None]
            ELSE Linked(r, PageTableEntryNew(r.ret, {PRESENT, WRITABLE, USER}))
    IN IF is_present(e) THEN [k |-> k, table |-> phys_addr(e)]
       ELSE Created(KAllocPage(k))

\* get_or_create on entries[idx] of the table in frame: [k, table]
get_or_create(k, frame, idx) ==
    LET e == ReadEntry(k.mem, frame, idx)
        Linked(r, ne) ==
            [k     |-> [r.k EXCEPT !.mem =
                          WriteEntry(PageTableZero(@, r.ret), frame, idx, ne)],
             table |-> phys_addr(ne)]
        Created(r) ==
            IF r.ret = None
            THEN [k |-> [r.k EXCEPT !.halt = "panic"], table |-> None]
            ELSE Linked(r, PageTableEntryNew(r.ret, {PRESENT, WRITABLE, USER}))
    IN IF is_present(e) THEN [k |-> k, table |-> phys_addr(e)]
       ELSE Created(KAllocPage(k))

\* map_page for the page whose walk has the indices ix: the kernel state afterwards
map_page_at(k, pml4_phys, ix, phys, flags) ==
    LET Pt(c) ==
            IF c.k.halt # "run" THEN c.k
            ELSE [c.k EXCEPT !.mem =
                    WriteEntry(@, c.table, ix[4], PageTableEntryNew(phys, flags))]
        Pd(b) ==
            IF b.k.halt # "run" THEN b.k
            ELSE Pt(get_or_create(b.k, b.table, ix[3]))
        Pdpt(a) ==
            IF a.k.halt # "run" THEN a.k
            ELSE Pd(get_or_create(a.k, a.table, ix[2]))
    IN Pdpt(get_or_create(k, pml4_phys, ix[1]))

\* map_page: the kernel state afterwards
map_page(k, pml4_phys, virt, phys, flags) ==
    map_page_at(k, pml4_phys, Indices(virt), phys, flags)

\* an unmap that walks the tables and clears nothing
UnmapPageKeep(m, pml4_phys, virt) == m

\* an unmap that clears the page-directory entry of the walk, not the leaf
UnmapPageUpper(m, pml4_phys, virt) ==
    LET e0 == ReadEntry(m, pml4_phys, pml4_idx(virt))
        e1 == ReadEntry(m, phys_addr(e0), pdpt_idx(virt))
        e2 == ReadEntry(m, phys_addr(e1), pd_idx(virt))
    IN IF ~is_present(e0) THEN m
       ELSE IF ~is_present(e1) THEN m
       ELSE IF ~is_present(e2) THEN m
       ELSE WriteEntry(m, phys_addr(e1), pd_idx(virt), ZeroEntry)

\* unmap_page: the frames afterwards
unmap_page(m, pml4_phys, virt) ==
    LET e0 == ReadEntry(m, pml4_phys, pml4_idx(virt))
        e1 == ReadEntry(m, phys_addr(e0), pdpt_idx(virt))
        e2 == ReadEntry(m, phys_addr(e1), pd_idx(virt))
    IN IF ~is_present(e0) THEN m
       ELSE IF ~is_present(e1) THEN m
       ELSE IF ~is_present(e2) THEN m
       ELSE WriteEntry(m, phys_addr(e2), pt_idx(virt), ZeroEntry)

\* translate_addr: the physical address, or None
translate_addr(m, pml4_phys, virt) ==
    LET e0 == ReadEntry(m, pml4_phys, pml4_idx(virt))
        e1 == ReadEntry(m, phys_addr(e0), pdpt_idx(virt))
        e2 == ReadEntry(m, phys_addr(e1), pd_idx(virt))
        e3 == ReadEntry(m, phys_addr(e2), pt_idx(virt))
    IN IF ~is_present(e0) THEN None
       ELSE IF ~is_present(e1) THEN None
       ELSE IF ~is_present(e2) THEN None
       ELSE IF ~is_present(e3) THEN None
       ELSE phys_addr(e3) + (virt % PAGE_SIZE)

\* translate_addr for a u64 virtual address: the physical address, or None
translate_addr64(m, pml4_phys, v) ==
    LET ix == Indices64(v)
        e0 == ReadEntry(m, pml4_phys, ix[1])
        e1 == ReadEntry(m, phys_addr(e0), ix[2])
        e2 == ReadEntry(m, phys_addr(e1), ix[3])
        e3 == ReadEntry(m, phys_addr(e2), ix[4])
    IN IF ~is_present(e0) THEN None
       ELSE IF ~is_present(e1) THEN None
       ELSE IF ~is_present(e2) THEN None
       ELSE IF ~is_present(e3) THEN None
       ELSE phys_addr(e3) + (v[1] % PAGE_SIZE)

\* the leaf entry the walk for virt ends at, ZeroEntry if the walk stops early
LeafEntry(m, pml4_phys, virt) ==
    LET e0 == ReadEntry(m, pml4_phys, pml4_idx(virt))
        e1 == ReadEntry(m, phys_addr(e0), pdpt_idx(virt))
        e2 == ReadEntry(m, phys_addr(e1), pd_idx(virt))
    IN IF is_present(e0) /\ is_present(e1) /\ is_present(e2)
       THEN ReadEntry(m, phys_addr(e2), pt_idx(virt))
       ELSE ZeroEntry

\* ------------------------------------------------------------ AddressSpace
\* Option::<AddressSpace>::None
NoSpace == [pml4 |-> None, vmas |-> <<>>]

\* AddressSpace::new: [k, space], space.pml4 = None when the PMM has no frame
AddressSpaceNew(k) ==
    LET Made(r) ==
            IF r.ret = None THEN [k |-> r.k, space |-> NoSpace]
            ELSE [k     |-> [r.k EXCEPT !.mem = PageTableZero(@, r.ret)],
                  space |-> [pml4 |-> r.ret, vmas |-> <<>>]]
    IN Made(KAllocPage(k))

\* AddressSpace::map
map(k, space, virt, phys, flags) ==
    LET Recorded(k1) ==
            IF k1.halt # "run" THEN k1
            ELSE [k1 EXCEPT
                    !.expect   = {x \in @ : ~(x[1] = space.pml4 /\ x[2] = PageOf(virt))}
                                   \cup {<<space.pml4, virt, phys, flags>>},
                    !.unmapped = @ \ {<<space.pml4, PageOf(virt)>>}]
    IN Recorded(map_page(k, space.pml4, virt, phys, flags))

\* AddressSpace::unmap
unmap(k, space, virt) ==
    [k EXCEPT
       !.mem      = unmap_page(@, space.pml4, virt),
       !.expect   = {x \in @ : ~(x[1] = space.pml4 /\ x[2] = PageOf(virt))},
       !.unmapped = @ \cup {<<space.pml4, virt>>}]

\* AddressSpace::translate
translate(m, space, virt) == translate_addr(m, space.pml4, virt)

Anonymous == [tag |-> "Anonymous", phys |-> 0]
Shared(phys) == [tag |-> "Shared", phys |-> phys]
Kernel == [tag |-> "Kernel", phys |-> 0]

Vma(start, end, flags, kind) ==
    [start |-> start, end |-> end, flags |-> flags, kind |-> kind]

contains(vma, addr) == addr >= vma.start /\ addr < vma.end

\* AddressSpace::add_vma: [space, ret]
add_vma(space, vma) ==
    IF Len(space.vmas) >= VMA_CAP THEN [space |-> space, ret |-> FALSE]
    ELSE [space |-> [space EXCEPT !.vmas = Append(@, vma)], ret |-> TRUE]

\* a find_vma that searches vmas[..vma_count - 1]
FindVmaShort(space, addr) ==
    LET hits == {i \in 1 .. (Len(space.vmas) - 1) : contains(space.vmas[i], addr)}
    IN IF hits = {} THEN 0 ELSE MinOf(hits)

\* AddressSpace::find_vma: the index of the first region containing addr, 0 for None
find_vma(space, addr) ==
    LET hits == {i \in 1 .. Len(space.vmas) : contains(space.vmas[i], addr)}
    IN IF hits = {} THEN 0 ELSE MinOf(hits)

\* a map_anonymous that reports success without recording the region
MapAnonymousUnrecorded(space, start, size, flags) == [space |-> space, ret |-> TRUE]

\* AddressSpace::map_anonymous: [space, ret]
map_anonymous(space, start, size, flags) ==
    add_vma(space, Vma(start, start + size, flags, Anonymous))

\* a map_shared loop that stops after the first page
MapSharedFirstOnly(k, space, start, phys, size, flags, offset) ==
    IF size > 0 THEN map(k, space, start, phys, flags) ELSE k

\* the loop of map_shared from offset on
RECURSIVE MapSharedFrom(_, _, _, _, _, _, _)
MapSharedFrom(k, space, start, phys, size, flags, offset) ==
    IF offset < size /\ k.halt = "run"
    THEN MapSharedFrom(map(k, space, start + offset, phys + offset, flags),
                       space, start, phys, size, flags, offset + PAGE_SIZE)
    ELSE k

\* AddressSpace::map_shared: [k, space, ret]
map_shared(k, space, start, phys, size, flags) ==
    LET r == add_vma(space, Vma(start, start + size, flags, Shared(phys)))
        Mapped(k1) ==
            IF k1.halt # "run" THEN [k |-> k1, space |-> space, ret |-> FALSE]
            ELSE [k |-> k1, space |-> r.space, ret |-> r.ret]
    IN Mapped(MapSharedFrom(k, space, start, phys, size, flags, 0))

\* a decode that tests bit 0 of the error code
IsWriteBit0(error) == error % 2 = 1

\* is_write = error & 0x2 != 0
IsWrite(error) == (error \div 2) % 2 = 1

\* a kind test that lets every region kind take the lazy path
IsLazyKindAny(kind) == TRUE

\* the match on vma.kind: only VmaKind::Anonymous is filled on a fault
IsLazyKind(kind) == kind.tag = "Anonymous"

\* handle_page_fault: [k, ret]
handle_page_fault(k, space, fault_addr, error) ==
    LET is_write == IsWrite(error)
        i        == find_vma(space, fault_addr)
        Done(k2) == [k |-> k2, ret |-> k2.halt = "run"]
        Anon(r, flags) ==
            IF r.ret = None THEN [k |-> r.k, ret |-> FALSE]
            ELSE Done(map([r.k EXCEPT !.mem = WriteBytesZero(@, r.ret)],
                          space, PageOf(fault_addr), r.ret, flags))
    IN IF i = 0 THEN [k |-> k, ret |-> FALSE]
       ELSE LET vma == space.vmas[i]
            IN IF is_write /\ WRITABLE \notin vma.flags THEN [k |-> k, ret |-> FALSE]
               ELSE IF IsLazyKind(vma.kind)
               THEN Anon(KAllocPage(k), vma.flags)
               ELSE [k |-> k, ret |-> FALSE]

\* ---------------------------------------------------------------- direct map
\* PHYSICAL_MAP_OFFSET = 0xFFFF_8000_0000_0000
PHYSICAL_MAP_OFFSET == <<0, 0, 32768, 65535>>

\* phys_to_virt: phys + PHYSICAL_MAP_OFFSET.  When the sum does not fit 64 bits
\* the build decides: with overflow checks the kernel panics, without them the
\* sum wraps.
phys_to_virt(phys, checks) ==
    LET Sum(r) ==
            IF r.carry = 1 /\ checks THEN [v |-> <<>>, panic |-> TRUE]
            ELSE [v |-> r.val, panic |-> FALSE]
    IN Sum(AddU64(phys, PHYSICAL_MAP_OFFSET))

\* a virt_to_phys that clears the sixteen sign-extension bits instead of
\* subtracting the offset
VirtToPhysMasked(virt, checks) ==
    [p |-> <<virt[1], virt[2], virt[3], 0>>, panic |-> FALSE]

\* virt_to_phys: virt - PHYSICAL_MAP_OFFSET, with the same two outcomes when
\* virt lies below the offset
virt_to_phys(virt, checks) ==
    LET Diff(r) ==
            IF r.carry = 1 /\ checks THEN [p |-> <<>>, panic |-> TRUE]
            ELSE [p |-> r.val, panic |-> FALSE]
    IN Diff(SubU64(virt, PHYSICAL_MAP_OFFSET))

\* ------------------------------------------------------------------ vmm::init
\* the bytes of low physical memory vmm::init maps: 16 * 1024 * 1024
DirectMapBytes == 16 * 1024 * 1024

\* the loop of vmm::init for the pages lo .. hi - 1, in ascending order:
\* space.map(PHYSICAL_MAP_OFFSET + offset, offset, KERNEL_RW)
RECURSIVE MapLow(_, _, _, _)
MapLow(k, space, lo, hi) ==
    IF k.halt # "run" \/ lo >= hi THEN k
    ELSE IF hi - lo = 1
    THEN map_page_at(k, space.pml4,
                     Indices64(AddU64(PHYSICAL_MAP_OFFSET, U64(lo * PAGE_SIZE)).val),
                     lo * PAGE_SIZE, KERNEL_RW)
    ELSE MapLow(MapLow(k, space, lo, (lo + hi) \div 2), space, (lo + hi) \div 2, hi)

\* vmm::init: [k, space]; AddressSpace::new().expect(..) panics without a frame
vmm_init(k) ==
    LET Made(r) ==
            IF r.space.pml4 = None
            THEN [k |-> [r.k EXCEPT !.halt = "panic"], space |-> NoSpace]
            ELSE [k |-> MapLow(r.k, r.space, 0, DirectMapBytes \div PAGE_SIZE),
                  space |-> r.space]
    IN Made(AddressSpaceNew(k))

\* ================================================================ kernel heap
SLAB_SIZES == <<8, 16, 32, 64, 128, 256, 512, 1024, 2048>>
NUM_SLABS == Len(SLAB_SIZES)

\* the null pointer; Option<NonNull<FreeNode>>::None has the same bits
NullPtr == <<0, 0, 0, 0>>

SlabCacheNew(obj_size) == [obj_size |-> obj_size, free |-> NullPtr, total |-> 0, used |-> 0]

\* KernelHeap::new() and HEAP_USED = 0; nodes holds the FreeNode written at each
\* address: pointer |-> next.  A cell handed to a caller is outside DOMAIN nodes.
KernelHeapNew ==
    [slabs |-> [i \in 1 .. NUM_SLABS |-> SlabCacheNew(SLAB_SIZES[i])],
     used  |-> 0,
     nodes |-> <<>>]

\* pmm::alloc_pages(order) called from inside the kernel: [k, ret]
KAllocPages(k, order) ==
    LET Taken(r) ==
            [k   |-> [k EXCEPT !.pmm = r.b,
                               !.fb  = IF r.ret = None THEN @ ELSE @ - AllocBytes(order)],
             ret |-> r.ret]
    IN Taken(alloc(k.pmm, order))

\* pmm::free_pages(addr, order) called from inside the kernel
KFreePages(k, addr, order) ==
    [k EXCEPT !.pmm = free(@, addr, order), !.fb = @ + FreeBytes(order)]

\* (*ptr).next = next
WriteNode(nodes, ptr, next) == (ptr :> next) @@ nodes

\* the cell at ptr now belongs to a caller, who may write anything to it
TakeNode(nodes, ptr) == [q \in DOMAIN nodes \ {ptr} |-> nodes[q]]

\* the loop of grow for i = hi - 1 down to lo, in that order: [c, nodes].
\* The iterations for the upper half of the range are finished (u) before the
\* lower half starts; the loop never changes obj_size.
RECURSIVE Carve(_, _, _, _)
Carve(g, start, lo, hi) ==
    LET Linked(ptr) ==
            [c     |-> [g.c EXCEPT !.free = ptr],
             nodes |-> WriteNode(g.nodes, ptr, g.c.free)]
        Lower(u) ==
            IF u.c.obj_size # g.c.obj_size THEN u
            ELSE Carve(u, start, lo, (lo + hi) \div 2)
    IN IF lo >= hi THEN g
       ELSE IF hi - lo = 1 THEN Linked(AddU64(start, U64(lo * g.c.obj_size)).val)
       ELSE Lower(Carve(g, start, (lo + hi) \div 2, hi))

\* a grow that slices the page into one cell fewer than fit
GrowShort(h, k, root, idx) ==
    LET count == PAGE_SIZE \div h.slabs[idx].obj_size
        Carved(k1, r) ==
            [h |-> [h EXCEPT !.slabs[idx] = [r.c EXCEPT !.total = @ + count],
                             !.nodes = r.nodes],
             k |-> k1]
        Sliced(k1, start) ==
            IF translate_addr64(k1.mem, root, start) = None
            THEN [h |-> h, k |-> [k1 EXCEPT !.halt = "panic"]]
            ELSE Carved(k1, Carve([c |-> h.slabs[idx], nodes |-> h.nodes], start, 0,
                                  count - 1))
        Got(a) ==
            IF a.ret = None THEN [h |-> h, k |-> a.k]
            ELSE Sliced(a.k, phys_to_virt(U64(a.ret), TRUE).v)
    IN Got(KAllocPage(k))

\* SlabCache::grow on slabs[idx]: [h, k].  root is the active PML4: the first
\* write to a page that is not mapped there is a page fault, and the page-fault
\* handler panics.  Frames handed out by the PMM lie below 2^31, so
\* phys_to_virt does not overflow.
grow(h, k, root, idx) ==
    LET count == PAGE_SIZE \div h.slabs[idx].obj_size
        Carved(k1, r) ==
            [h |-> [h EXCEPT !.slabs[idx] = [r.c EXCEPT !.total = @ + count],
                             !.nodes = r.nodes],
             k |-> k1]
        Sliced(k1, start) ==
            IF translate_addr64(k1.mem, root, start) = None
            THEN [h |-> h, k |-> [k1 EXCEPT !.halt = "panic"]]
            ELSE Carved(k1, Carve([c |-> h.slabs[idx], nodes |-> h.nodes], start, 0, count))
        Got(a) ==
            IF a.ret = None THEN [h |-> h, k |-> a.k]
            ELSE Sliced(a.k, phys_to_virt(U64(a.ret), TRUE).v)
    IN Got(KAllocPage(k))

\* a pop that hands out the head of the free list and leaves it in place
SlabPopStay(g, idx) ==
    [h |-> [g.h EXCEPT !.slabs[idx].used = @ + 1], k |-> g.k, ret |-> g.h.slabs[idx].free]

\* the rest of SlabCache::alloc once grow has been tried: [h, k, ret]
SlabPop(g, idx) ==
    LET node == g.h.slabs[idx].free
    IN IF g.k.halt # "run" \/ node = NullPtr THEN [h |-> g.h, k |-> g.k, ret |-> NullPtr]
       ELSE [h   |-> [g.h EXCEPT !.slabs[idx].free = g.h.nodes[node],
                                 !.slabs[idx].used = @ + 1,
                                 !.nodes = TakeNode(@, node)],
             k   |-> g.k,
             ret |-> node]

\* SlabCache::alloc on slabs[idx]: [h, k, ret], ret = NullPtr for None
SlabAlloc(h, k, root, idx) ==
    IF h.slabs[idx].free = NullPtr
    THEN SlabPop(grow(h, k, root, idx), idx)
    ELSE SlabPop([h |-> h, k |-> k], idx)

\* a free that links the cell in behind the head of the free list
SlabFreeSecond(h, idx, ptr) ==
    LET head == h.slabs[idx].free
    IN IF head = NullPtr
       THEN [h EXCEPT !.nodes = WriteNode(@, ptr, NullPtr),
                      !.slabs[idx].free = ptr,
                      !.slabs[idx].used = @ - 1]
       ELSE [h EXCEPT !.nodes = WriteNode(WriteNode(@, ptr, h.nodes[head]), head, ptr),
                      !.slabs[idx].used = @ - 1]

\* SlabCache::free on slabs[idx]
SlabFree(h, idx, ptr) ==
    [h EXCEPT !.nodes = WriteNode(@, ptr, h.slabs[idx].free),
              !.slabs[idx].free = ptr,
              !.slabs[idx].used = @ - 1]

\* a search for the first class strictly larger than size
slab_index_above(size) ==
    LET fit == {i \in 1 .. NUM_SLABS : SLAB_SIZES[i] > size}
    IN IF fit = {} THEN 0 ELSE MinOf(fit)

\* KernelHeap::slab_index: the position of the first class >= size, 0 for None
slab_index(size) ==
    LET fit == {i \in 1 .. NUM_SLABS : SLAB_SIZES[i] >= size}
    IN IF fit = {} THEN 0 ELSE MinOf(fit)

\* usize::next_power_of_two
RECURSIVE PowerFrom(_, _)
PowerFrom(q, n) == IF q >= n THEN q ELSE PowerFrom(2 * q, n)
next_power_of_two(n) == PowerFrom(1, n)

\* usize::trailing_zeros of a power of two
RECURSIVE trailing_zeros(_)
trailing_zeros(n) == IF n % 2 = 1 THEN 0 ELSE 1 + trailing_zeros(n \div 2)

\* layout.size().max(layout.align())
EffectiveSize(size, align) == Max(size, align)

\* an order taken from the page count without rounding it up to a power of two
LargeOrderExact(size) == trailing_zeros((size + PAGE_SIZE - 1) \div PAGE_SIZE)

\* the order the large path asks the PMM for
LargeOrder(size) ==
    trailing_zeros(next_power_of_two((size + PAGE_SIZE - 1) \div PAGE_SIZE))

\* GlobalAlloc::alloc: [h, k, ret]
HeapAlloc(h, k, root, size, align) ==
    LET eff == EffectiveSize(size, align)
        h1  == [h EXCEPT !.used = @ + eff]
        Large(a) ==
            [h |-> h1, k |-> a.k,
             ret |-> IF a.ret = None THEN NullPtr ELSE phys_to_virt(U64(a.ret), TRUE).v]
    IN IF slab_index(eff) # 0 THEN SlabAlloc(h1, k, root, slab_index(eff))
       ELSE Large(KAllocPages(k, LargeOrder(eff)))

\* GlobalAlloc::dealloc: [h, k].  The pointers callers pass were returned by
\* alloc, so virt_to_phys does not underflow and the frame lies below 2^31.
HeapDealloc(h, k, ptr, size, align) ==
    LET eff == EffectiveSize(size, align)
        h1  == [h EXCEPT !.used = @ - eff]
        Phys(w) == w[2] * Limb + w[1]
    IN IF slab_index(eff) # 0 THEN [h |-> SlabFree(h1, slab_index(eff), ptr), k |-> k]
       ELSE [h |-> h1,
             k |-> KFreePages(k, Phys(virt_to_phys(ptr, TRUE).p), LargeOrder(eff))]

\* heap::init: grow every slab once: [h, k]
RECURSIVE WarmUp(_, _, _, _)
WarmUp(h, k, root, idx) ==
    LET Next1(g) == WarmUp(g.h, g.k, root, idx + 1)
    IN IF idx > NUM_SLABS \/ k.halt # "run" THEN [h |-> h, k |-> k]
       ELSE Next1(grow(h, k, root, idx))

heap_init(k, root) == WarmUp(KernelHeapNew, k, root, 1)

\* hp = [live, last, log]: the <<ptr, size, align>> of every allocation a caller
\* holds, the most recent call, and every call so far as <<op, classes, ptr>>,
\* classes being the slab caches whose used count the call changed
NoHeapCall ==
    [op |-> "none", size |-> 0, align |-> 0, ret |-> NullPtr, n |-> 0, hit |-> {},
     fresh |-> TRUE, pmm0 |-> <<>>, fb0 |-> 0]

NoHp == [live |-> {}, last |-> NoHeapCall, log |-> <<>>]

\* ------------------------------------------------------- descriptor tables
\* cpu = [idt, tss, pic, iflag, pending, ran, out, after, serial, access]:
\*   idt      vector |-> gate, for the IDT_SIZE vectors
\*   tss      the TSS: rsp0 and the seven IST slots, slot n holding ist[n - 1]
\*   pic      the two 8259 controllers: 1 primary, 2 secondary
\*   iflag    the interrupt flag IF of RFLAGS
\*   pending  IRQ lines raised by devices and not yet delivered
\*   ran      the handler entered most recently, with what it was entered for
\*   out      the port writes <<port, value>> that handler made
\*   after    the vectors whose handler was entered after a kernel panic
\*   serial   the panic reasons printed to the serial console
\*   access   the most recent memory access of a task: <<space, addr, state>>
IDT_SIZE == 256

\* IdtEntry::missing()
IdtEntryMissing == [handler |-> "none", selector |-> 0, ist |-> 0, type_attr |-> 0]

\* IdtEntry::new(handler, selector, ist, type_attr)
IdtEntryNew(handler, selector, ist, type_attr) ==
    [handler |-> handler, selector |-> selector, ist |-> ist, type_attr |-> type_attr]

\* bit 7 of type_attr: the gate is present
GatePresent(e) == (e.type_attr \div 128) % 2 = 1

KERNEL_CODE == 8
GateAttr == 142

\* Tss::new()
TssNew == [rsp0 |-> 0, ist |-> [n \in 1 .. 7 |-> 0]]

\* KERNEL_STACK.as_ptr().add(KERNEL_STACK.len()): the address the linker gave
\* the 16 KiB array plus its length; any non-zero address
KERNEL_STACK_TOP == 16 * 1024

PIC1_CMD == 32
PIC1_DATA == 33
PIC2_CMD == 160
PIC2_DATA == 161

\* an 8259 after reset: step 0 is normal operation, steps 2 .. 4 wait for the
\* initialisation words ICW2 .. ICW4.  BIOS vector bases 0x08 and 0x70.
PicReset(offset) == [step |-> 0, offset |-> offset, mask |-> 0, isr |-> {}]

Bit(byte, n) == (byte \div Pow2(n)) % 2 = 1

\* what one controller does with a byte written to its command port: ICW1
\* (bit 4 set) starts initialisation; 0x20 is the non-specific End-Of-Interrupt,
\* which clears the in-service bit of highest priority
PicCommand(pc, val) ==
    IF Bit(val, 4) THEN [pc EXCEPT !.step = 2, !.mask = 0, !.isr = {}]
    ELSE IF val = 32 /\ pc.isr # {} THEN [pc EXCEPT !.isr = @ \ {MinOf(@)}]
    ELSE pc

\* what one controller does with a byte written to its data port: ICW2 is the
\* vector base, ICW3 and ICW4 are taken, then every byte is the mask register
PicData(pc, val) ==
    IF pc.step = 2 THEN [pc EXCEPT !.step = 3, !.offset = (val \div 8) * 8]
    ELSE IF pc.step = 3 THEN [pc EXCEPT !.step = 4]
    ELSE IF pc.step = 4 THEN [pc EXCEPT !.step = 0]
    ELSE [pc EXCEPT !.mask = val]

\* outb(port, val)
outb(c, port, val) ==
    LET Logged == [c EXCEPT !.out = Append(@, <<port, val>>)]
    IN IF port = PIC1_CMD THEN [Logged EXCEPT !.pic[1] = PicCommand(@, val)]
       ELSE IF port = PIC2_CMD THEN [Logged EXCEPT !.pic[2] = PicCommand(@, val)]
       ELSE IF port = PIC1_DATA THEN [Logged EXCEPT !.pic[1] = PicData(@, val)]
       ELSE IF port = PIC2_DATA THEN [Logged EXCEPT !.pic[2] = PicData(@, val)]
       ELSE Logged

\* pic_eoi(irq)
pic_eoi(c, irq) ==
    IF irq >= 8 THEN outb(outb(c, PIC2_CMD, 32), PIC1_CMD, 32)
    ELSE outb(c, PIC1_CMD, 32)

\* the bytes pic_init writes, in order
PicInitWrites ==
    <<<<PIC1_CMD, 17>>, <<PIC2_CMD, 17>>, <<PIC1_DATA, 32>>, <<PIC2_DATA, 40>>,
      <<PIC1_DATA, 4>>, <<PIC2_DATA, 2>>, <<PIC1_DATA, 1>>, <<PIC2_DATA, 1>>,
      <<PIC1_DATA, 252>>, <<PIC2_DATA, 255>>>>

RECURSIVE OutAll(_, _)
OutAll(c, ws) ==
    IF ws = <<>> THEN c ELSE OutAll(outb(c, Head(ws)[1], Head(ws)[2]), Tail(ws))

\* pic_init()
pic_init(c) == OutAll(c, PicInitWrites)

\* the gates idt::init sets: vector |-> <<handler, ist>>
Gates ==
    (0 :> <<"handle_divide_error", 0>>) @@ (6 :> <<"handle_invalid_opcode", 0>>)
    @@ (8 :> <<"handle_double_fault", 1>>) @@ (13 :> <<"handle_general_protection", 0>>)
    @@ (14 :> <<"handle_page_fault", 0>>) @@ (32 :> <<"handle_timer", 0>>)
    @@ (39 :> <<"handle_spurious", 0>>)

\* the machine when kernel_main is entered: interrupts off (boot.rs: cli)
CpuReset ==
    [idt     |-> [v \in 0 .. IDT_SIZE - 1 |-> IdtEntryMissing],
     tss     |-> TssNew,
     pic     |-> <<PicReset(8), PicReset(112)>>,
     iflag   |-> FALSE,
     pending |-> {},
     ran     |-> [vec |-> None, stack |-> None, cr2 |-> None, err |-> 0, sid |-> 0],
     out     |-> <<>>,
     after   |-> {},
     serial  |-> <<>>,
     access  |-> <<0, 0, "none">>]

\* gdt::init(): TSS.rsp0 is the one field of the TSS it writes
gdt_init(c) == [c EXCEPT !.tss.rsp0 = KERNEL_STACK_TOP]

\* idt::init(): the seven gates, pic_init, lidt, sti
idt_init(c) ==
    LET Set(c1) ==
            [c1 EXCEPT !.idt = [v \in 0 .. IDT_SIZE - 1 |->
                                   IF v \in DOMAIN Gates
                                   THEN IdtEntryNew(Gates[v][1], KERNEL_CODE, Gates[v][2],
                                                    GateAttr)
                                   ELSE c1.idt[v]]]
        Sti(c1) == [c1 EXCEPT !.iflag = TRUE, !.out = <<>>]
    IN Sti(pic_init(Set(c)))

\* arch::init(): gdt::init(), idt::init(); mm::init() is empty
arch_init == idt_init(gdt_init(CpuReset))

\* the IRQ line does not reach the CPU: its mask bit is set, or it is a line of
\* the secondary controller and the cascade line 2 of the primary is masked
Masked(c, line) ==
    IF line < 8 THEN Bit(c.pic[1].mask, line)
    ELSE Bit(c.pic[2].mask, line - 8) \/ Bit(c.pic[1].mask, 2)

\* the vector an IRQ line is delivered to
VectorOf(c, line) ==
    IF line < 8 THEN c.pic[1].offset + line ELSE c.pic[2].offset + (line - 8)

\* the controllers once line is being serviced
InService(c, line) ==
    IF line < 8 THEN [c EXCEPT !.pic[1].isr = @ \cup {line}]
    ELSE [c EXCEPT !.pic[1].isr = @ \cup {2}, !.pic[2].isr = @ \cup {line - 8}]

\* the panic handler of main.rs: print, then spin.  It leaves the interrupt
\* flag as it finds it.  [cpu, halt]
panic(c, reason) ==
    [cpu |-> [c EXCEPT !.serial = Append(@, reason)], halt |-> "panic"]

\* the body of a handler, entered with interrupts off through an interrupt
\* gate; a handler that returns ends in iretq, which restores the flag the
\* interrupted code had: [cpu, halt]
RunHandler(c, h, name, IF0) ==
    IF name = "handle_timer"
    THEN [cpu |-> [pic_eoi(c, 32) EXCEPT !.iflag = IF0], halt |-> h]
    ELSE IF name = "handle_spurious" THEN [cpu |-> [c EXCEPT !.iflag = IF0], halt |-> h]
    ELSE IF name = "handle_page_fault" THEN panic(c, "Page Fault")
    ELSE IF name = "handle_divide_error" THEN panic(c, "Division Error")
    ELSE IF name = "handle_invalid_opcode" THEN panic(c, "Invalid Opcode")
    ELSE IF name = "handle_double_fault" THEN panic(c, "Double Fault")
    ELSE panic(c, "General Protection Fault")

\* the CPU delivers vector v while the kernel is in state h: [cpu, halt].
\* A vector whose gate is not a present interrupt gate is a general protection
\* fault (vector 13).  A gate with IST index n > 0 switches to the stack in
\* TSS IST slot n; with slot n = 0 the frame is pushed below address 0, where
\* nothing is mapped, and the machine shuts down.
Deliver(c, h, v, cr2, err, sid) ==
    LET w     == IF GatePresent(c.idt[v]) THEN v ELSE 13
        gate  == c.idt[w]
        top   == IF gate.ist = 0 THEN None ELSE c.tss.ist[gate.ist]
        Entered ==
            [c EXCEPT !.iflag = FALSE,
                      !.ran = [vec |-> w, stack |-> top, cr2 |-> cr2, err |-> err,
                               sid |-> sid],
                      !.out = <<>>,
                      !.after = IF h = "panic" THEN @ \cup {w} ELSE @]
    IN IF ~GatePresent(gate) \/ top = 0
       THEN [cpu |-> [c EXCEPT !.ran = [vec |-> w, stack |-> top, cr2 |-> cr2,
                                        err |-> err, sid |-> sid]],
             halt |-> "reset"]
       ELSE RunHandler(Entered, h, gate.handler, c.iflag)

\* ----------------------------------------------------- callers of the PMM
\* ctx[c] = [pc, addr, order]: where context c is inside alloc_pages or
\* free_pages.  "idle": in no call; "sub": the lock statement of alloc_pages
\* has returned addr and FREE_BYTES.fetch_sub has not run yet; "add": the lock
\* statement of free_pages is done and FREE_BYTES.fetch_add has not run yet.
Contexts == 1 .. NumContexts

IdleCtx == [pc |-> "idle", addr |-> None, order |-> 0]

\* no context is inside the PMM
NoCtx == [c \in Contexts |-> IdleCtx]

\* the heap, the CPU and the PMM's callers at rest
Quiet ==
    /\ heap = KernelHeapNew
    /\ hp = NoHp
    /\ cpu = arch_init
    /\ ctx = NoCtx

\* no direct-map conversion made
NoConv == [p |-> <<>>, v |-> <<>>, back |-> <<>>, at |-> "none", checks |-> FALSE]

NoCall == [op |-> "none", sid |-> 0, addr |-> 0, err |-> 0, ret |-> FALSE, n |-> 0]

\* ---------------------------------------------------------------- scenario S2
\* s2 = [on, got]: got lists the addresses returned or freed so far, as long as
\* the calls since pmm::init are a prefix of
\*   alloc_pages(3) x 4, free_pages in reverse order of allocation, alloc_pages(5)
S2Off == [on |-> FALSE, got |-> <<>>]

S2Track(t, op, order, addr) ==
    LET n == Len(t.got)
    IN IF ~t.on THEN S2Off
       ELSE IF n < 4 /\ op = "alloc" /\ order = 3 /\ addr # None
            THEN [t EXCEPT !.got = Append(@, addr)]
       ELSE IF n >= 4 /\ n < 8 /\ op = "free" /\ order = 3 /\ addr = t.got[8 - n]
            THEN [t EXCEPT !.got = Append(@, addr)]
       ELSE IF n = 8 /\ op = "alloc" /\ order = 5
            THEN [t EXCEPT !.got = Append(@, addr)]
       ELSE S2Off

\* The allocator after pmm::init and then the alloc_pages calls of seq, made by
\* owners that keep their blocks
RECURSIVE AllocSeq(_, _, _)
AllocSeq(b, blocks, seq) ==
    IF seq = <<>> THEN [b |-> b, blocks |-> blocks]
    ELSE LET r == alloc(b, Head(seq))
         IN AllocSeq(r.b,
                     IF r.ret = None THEN blocks ELSE blocks \cup {<<r.ret, Head(seq)>>},
                     Tail(seq))

\* boot histories the runs start from: nothing held, or three 4 MiB blocks held
HeldSeqs == {<<>>, <<10, 10, 10>>}

InitAfter(seq) ==
    LET a == AllocSeq(PmmInit, {}, seq)
    IN /\ pmm = a.b
       /\ TOTAL_BYTES = PmmInit.total_pages * PAGE_SIZE
       /\ FREE_BYTES = a.b.free_pages * PAGE_SIZE
       /\ held = a.blocks
       /\ live = {}
       /\ freed = {}
       /\ last = [op |-> "init", order |-> 0, ret |-> None, n |-> 0]
       /\ calls = 0
       /\ s2 = [on |-> (seq = <<>>), got |-> <<>>]
       /\ mem = <<>>
       /\ spaces = <<>>
       /\ halt = "run"
       /\ expect = {}
       /\ unmapped = {}
       /\ anon = {}
       /\ vlast = NoCall
       /\ regs = {}
       /\ life = {}
       /\ KERNEL_SPACE = NoSpace
       /\ conv = NoConv
       /\ Quiet

Init == \E seq \in HeldSeqs : InitAfter(seq)

\* alloc_pages(order): any order a caller may pass, including order >= MAX_ORDER.
\* tracked says whether the caller's block is recorded in live, to be freed later.
AllocPagesCall(order, tracked) ==
    LET r == alloc(pmm, order)
    IN /\ pmm' = r.b
       /\ FREE_BYTES' = IF r.ret = None THEN FREE_BYTES ELSE FREE_BYTES - AllocBytes(order)
       /\ live' = IF r.ret = None \/ ~tracked THEN live ELSE live \cup {<<r.ret, order>>}
       /\ mem' = IF r.ret = None THEN mem ELSE OwnerWrites(mem, r.ret, order)
       /\ freed' = IF r.ret = None THEN freed ELSE {}
       /\ last' = [op |-> "alloc", order |-> order, ret |-> r.ret, n |-> calls + 1]
       /\ calls' = calls + 1
       /\ s2' = S2Track(s2, "alloc", order, r.ret)
       /\ UNCHANGED <<TOTAL_BYTES, held, spaces, halt, expect, unmapped, anon, vlast,
                       regs, life, KERNEL_SPACE, conv, rest>>

alloc_pages(order) == halt = "run" /\ AllocPagesCall(order, TRUE)

\* free_pages(addr, order) for a block that is currently allocated
free_pages(blk) ==
    /\ halt = "run"
    /\ blk \in live
    /\ pmm' = free(pmm, blk[1], blk[2])
    /\ FREE_BYTES' = FREE_BYTES + FreeBytes(blk[2])
    /\ live' = live \ {blk}
    /\ freed' = freed \cup {blk}
    /\ last' = [op |-> "free", order |-> blk[2], ret |-> blk[1], n |-> calls + 1]
    /\ calls' = calls + 1
    /\ s2' = S2Track(s2, "free", blk[2], blk[1])
    /\ UNCHANGED <<TOTAL_BYTES, held, mem, spaces, halt, expect, unmapped, anon, vlast,
                    regs, life, KERNEL_SPACE, conv, rest>>

\* alloc_page() = alloc_pages(0), called by an owner that never frees the page
alloc_page == halt = "run" /\ AllocPagesCall(0, FALSE)

Next ==
    \/ \E order \in 0 .. (MAX_ORDER + 1) : calls < MaxCalls /\ alloc_pages(order)
    \/ \E blk \in live : calls < MaxCalls /\ free_pages(blk)

Spec == Init /\ [][Next]_vars

\* Scenario S1: a fresh PMM and alloc_page called until after it has failed
InitExhaust == InitAfter(<<>>)
NextExhaust == calls <= pmm.total_pages + 1 /\ alloc_page
SpecExhaust == InitExhaust /\ [][NextExhaust]_vars

\* Scenario S2: a fresh PMM, callers asking for 32 KiB and 128 KiB blocks
InitS2 == InitAfter(<<>>)
NextS2 ==
    \/ \E order \in {3, 5} : calls < S2MaxCalls /\ alloc_pages(order)
    \/ \E blk \in live : calls < S2MaxCalls /\ free_pages(blk)
SpecS2 == InitS2 /\ [][NextS2]_vars

\* ============================================================ VMM operations
SetK(k) ==
    /\ pmm' = k.pmm
    /\ FREE_BYTES' = k.fb
    /\ mem' = k.mem
    /\ halt' = k.halt
    /\ expect' = k.expect
    /\ unmapped' = k.unmapped

VCall(op, sid, addr, err, ret) ==
    [op |-> op, sid |-> sid, addr |-> addr, err |-> err, ret |-> ret, n |-> calls + 1]

VmmFrame ==
    UNCHANGED <<TOTAL_BYTES, live, held, freed, last, s2, life, KERNEL_SPACE, conv, rest>>

\* space.map(virt, phys, flags)
Map(sid, virt, phys, flags) ==
    /\ halt = "run"
    /\ SetK(map(CurK, spaces[sid], virt, phys, flags))
    /\ vlast' = VCall("map", sid, virt, 0, TRUE)
    /\ calls' = calls + 1
    /\ UNCHANGED <<spaces, anon, regs>>
    /\ VmmFrame

\* space.unmap(virt)
Unmap(sid, virt) ==
    /\ halt = "run"
    /\ SetK(unmap(CurK, spaces[sid], virt))
    /\ vlast' = VCall("unmap", sid, virt, 0, TRUE)
    /\ calls' = calls + 1
    /\ UNCHANGED <<spaces, anon, regs>>
    /\ VmmFrame

\* space.map_anonymous(start, size, flags)
MapAnonymous(sid, start, size, flags) ==
    LET r == map_anonymous(spaces[sid], start, size, flags)
    IN /\ halt = "run"
       /\ spaces' = [spaces EXCEPT ![sid] = r.space]
       /\ vlast' = VCall("map_anonymous", sid, start, 0, r.ret)
       /\ anon' = anon \cup {<<spaces[sid].pml4, start, size, flags>>}
       /\ regs' = regs \cup {<<sid, start, start + size, r.ret, "map_anonymous">>}
       /\ calls' = calls + 1
       /\ UNCHANGED <<pmm, FREE_BYTES, mem, halt, expect, unmapped>>
       /\ VmmFrame

\* space.map_shared(start, phys, size, flags)
MapShared(sid, start, phys, size, flags) ==
    LET r == map_shared(CurK, spaces[sid], start, phys, size, flags)
    IN /\ halt = "run"
       /\ SetK(r.k)
       /\ spaces' = [spaces EXCEPT ![sid] = r.space]
       /\ vlast' = VCall("map_shared", sid, start, 0, r.ret)
       /\ regs' = regs \cup {<<sid, start, start + size, r.ret, "map_shared">>}
       /\ calls' = calls + 1
       /\ UNCHANGED anon
       /\ VmmFrame

\* space.add_vma(vma), called directly
AddVma(sid, vma) ==
    LET r == add_vma(spaces[sid], vma)
    IN /\ halt = "run"
       /\ spaces' = [spaces EXCEPT ![sid] = r.space]
       /\ vlast' = VCall("add_vma", sid, vma.start, 0, r.ret)
       /\ regs' = regs \cup {<<sid, vma.start, vma.end, r.ret, "add_vma">>}
       /\ calls' = calls + 1
       /\ UNCHANGED <<pmm, FREE_BYTES, mem, halt, expect, unmapped, anon>>
       /\ VmmFrame

\* handle_page_fault(space, fault_addr, error)
PageFault(sid, fault_addr, error) ==
    LET r == handle_page_fault(CurK, spaces[sid], fault_addr, error)
    IN /\ halt = "run"
       /\ SetK(r.k)
       /\ vlast' = VCall("fault", sid, fault_addr, error, r.ret)
       /\ calls' = calls + 1
       /\ UNCHANGED <<spaces, anon, regs>>
       /\ VmmFrame

\* ------------------------------------------------------------ VMM start states
\* three 4 MiB blocks and then blocks of 2 MiB, 1 MiB, ... down to order j held
RECURSIVE Descend(_, _)
Descend(from, to) == IF from < to THEN <<>> ELSE <<from>> \o Descend(from - 1, to)

Pressure(j) == <<10, 10, 10>> \o Descend(MAX_ORDER - 2, j)

\* boot histories of the VMM runs: nothing held, or only 2^j frames left free
VmmHeldSeqs == {<<>>} \cup {Pressure(j) : j \in 1 .. 3}

\* the region the pre-filled region tables are filled with
FillerStart == Pow2(28)
Filler == Vma(FillerStart, FillerStart + PAGE_SIZE, USER_RW, Anonymous)

\* the space after n <= VMA_CAP calls add_vma(Filler) on an empty region table
Prefilled(space, n) == [space EXCEPT !.vmas = [i \in 1 .. n |-> Filler]]

\* NumSpaces address spaces made by AddressSpace::new, one after the other
RECURSIVE NewSpaces(_, _, _)
NewSpaces(k, made, n) ==
    LET Add(r) ==
            IF r.space.pml4 = None THEN [k |-> r.k, spaces |-> made]
            ELSE NewSpaces(r.k, Append(made, r.space), n - 1)
    IN IF n = 0 THEN [k |-> k, spaces |-> made]
       ELSE Add(AddressSpaceNew(k))

\* the number of address spaces the VMM runs start with
NumSpaces == 2

InitVmmAfter(seq, prefill) ==
    LET a  == AllocSeq(PmmInit, {}, seq)
        k0 == [pmm |-> a.b, fb |-> a.b.free_pages * PAGE_SIZE, mem |-> <<>>,
               halt |-> "run", expect |-> {}, unmapped |-> {}]
        r  == NewSpaces(k0, <<>>, NumSpaces)
    IN /\ Len(r.spaces) = NumSpaces
       /\ pmm = r.k.pmm
       /\ TOTAL_BYTES = PmmInit.total_pages * PAGE_SIZE
       /\ FREE_BYTES = r.k.fb
       /\ held = a.blocks
       /\ live = {}
       /\ freed = {}
       /\ last = [op |-> "init", order |-> 0, ret |-> None, n |-> 0]
       /\ calls = 0
       /\ s2 = S2Off
       /\ mem = r.k.mem
       /\ spaces = [r.spaces EXCEPT ![1] = Prefilled(@, prefill)]
       /\ halt = "run"
       /\ expect = {}
       /\ unmapped = {}
       /\ anon = {}
       /\ vlast = NoCall
       /\ regs = IF prefill = 0 THEN {}
                 ELSE {<<1, FillerStart, FillerStart + PAGE_SIZE, TRUE, "map_anonymous">>}
       /\ life = {}
       /\ KERNEL_SPACE = NoSpace
       /\ conv = NoConv
       /\ Quiet

\* the inputs of the VMM runs
V1 == Pow2(30)
V2 == V1 + PAGE_SIZE
V3 == V1 + Pow2(21)
DevA == 184 * PAGE_SIZE
DevB == DevA + PAGE_SIZE
NoPresent == {WRITABLE, USER}

\* the map_shared calls of the VMM runs: <<start, phys, size, flags>>
SharedArgs == {<<V1, DevA, 2 * PAGE_SIZE, USER_EX>>, <<V3, DevB, PAGE_SIZE + 100, USER_RW>>}

\* map / unmap / translate on two address spaces, with faults and shared
\* mappings landing on the same pages
InitVmm == \E seq \in VmmHeldSeqs : InitVmmAfter(seq, 0)

NextVmm ==
    \/ \E v \in {V1, V3} : \E p \in {DevA, DevB} : \E f \in {USER_RW, NoPresent} :
           calls < VmmMaxCalls /\ Map(1, v, p, f)
    \/ calls < VmmMaxCalls /\ Map(2, V1, DevB, USER_RW)
    \/ \E v \in {V1, V3} : calls < VmmMaxCalls /\ Unmap(1, v)
    \/ calls < VmmMaxCalls /\ Unmap(2, V1)
    \/ calls < VmmMaxCalls /\ MapAnonymous(1, V1, 2 * PAGE_SIZE, USER_RW)
    \/ \E c \in SharedArgs :
           calls < VmmMaxCalls /\ MapShared(1, c[1], c[2], c[3], c[4])
    \/ calls < VmmMaxCalls /\ PageFault(1, V1, 0)

SpecVmm == InitVmm /\ [][NextVmm]_vars

\* lazy anonymous regions and the page faults that fill them, with other
\* owners taking and returning frames
InitFault ==
    \E seq \in VmmHeldSeqs : \E prefill \in {0, VMA_CAP - 1} : InitVmmAfter(seq, prefill)

NextFault ==
    \/ \E r \in {<<V1, 2 * PAGE_SIZE, USER_RW>>, <<V3, PAGE_SIZE, USER_EX>>} :
           calls < FaultMaxCalls /\ MapAnonymous(1, r[1], r[2], r[3])
    \/ calls < FaultMaxCalls /\ MapShared(1, V1, DevA, PAGE_SIZE, USER_EX)
    \/ calls < FaultMaxCalls /\ AddVma(1, Vma(V2, V2 + PAGE_SIZE, KERNEL_RW, Kernel))
    \/ \E c \in {<<V1, 0>>, <<V1, 2>>, <<V2 + 564, 0>>, <<V3, 1>>, <<V3, 2>>} :
           calls < FaultMaxCalls /\ PageFault(1, c[1], c[2])
    \/ calls < FaultMaxCalls /\ alloc_pages(0)
    \/ \E blk \in live : calls < FaultMaxCalls /\ free_pages(blk)

SpecFault == InitFault /\ [][NextFault]_vars

\* maps, shared mappings and faults of one address space while another owner
\* takes single frames, so that every number of free frames is met
OomMaxCalls == 4

NextOom ==
    \/ \E v \in {V1, V3} : calls < OomMaxCalls /\ Map(1, v, DevA, USER_RW)
    \/ \E c \in SharedArgs :
           calls < OomMaxCalls /\ MapShared(1, c[1], c[2], c[3], c[4])
    \/ calls < OomMaxCalls /\ MapAnonymous(1, V1, 2 * PAGE_SIZE, USER_RW)
    \/ \E c \in {<<V1, 0>>, <<V2 + 564, 2>>} :
           calls < OomMaxCalls /\ PageFault(1, c[1], c[2])
    \/ calls < OomMaxCalls /\ alloc_pages(0)

SpecOom == InitVmm /\ [][NextOom]_vars

\* ------------------------------------------------- the kernel after vmm::init
\* AddressSpace::new() called by a task that keeps the space
NewSpace ==
    LET r == AddressSpaceNew(CurK)
        sid == Len(spaces) + 1
    IN /\ halt = "run"
       /\ SetK(r.k)
       /\ spaces' = IF r.space.pml4 = None THEN spaces ELSE Append(spaces, r.space)
       /\ life' = IF r.space.pml4 = None THEN life
                  ELSE life \cup {<<sid, FREE_BYTES, "live">>}
       /\ vlast' = VCall("new", sid, 0, 0, r.space.pml4 # None)
       /\ calls' = calls + 1
       /\ UNCHANGED <<TOTAL_BYTES, live, held, freed, last, s2, anon, regs,
                       KERNEL_SPACE, conv, rest>>

\* the address space sid goes out of scope.  AddressSpace has no Drop impl and
\* no field that owns memory, so dropping it runs no code.
Destroy(sid) ==
    /\ halt = "run"
    /\ \E x \in life :
          /\ x[1] = sid /\ x[3] = "live"
          /\ life' = (life \ {x}) \cup {<<sid, x[2], "dropped">>}
    /\ vlast' = VCall("drop", sid, 0, 0, TRUE)
    /\ calls' = calls + 1
    /\ UNCHANGED <<pmm, FREE_BYTES, TOTAL_BYTES, live, held, freed, last, s2, mem,
                    spaces, halt, expect, unmapped, anon, regs, KERNEL_SPACE, conv,
                    rest>>

\* the ids of the address spaces still in scope
LiveSpaces == {x[1] : x \in {y \in life : y[3] = "live"}}

\* main: pmm::init(), then vmm::init()
InitKernel ==
    LET k0 == [pmm |-> PmmInit, fb |-> PmmInit.free_pages * PAGE_SIZE, mem |-> <<>>,
               halt |-> "run", expect |-> {}, unmapped |-> {}]
        r  == vmm_init(k0)
    IN /\ pmm = r.k.pmm
       /\ TOTAL_BYTES = PmmInit.total_pages * PAGE_SIZE
       /\ FREE_BYTES = r.k.fb
       /\ held = {}
       /\ live = {}
       /\ freed = {}
       /\ last = [op |-> "init", order |-> 0, ret |-> None, n |-> 0]
       /\ calls = 0
       /\ s2 = S2Off
       /\ mem = r.k.mem
       /\ spaces = <<>>
       /\ halt = r.k.halt
       /\ expect = {}
       /\ unmapped = {}
       /\ anon = {}
       /\ vlast = NoCall
       /\ regs = {}
       /\ life = {}
       /\ KERNEL_SPACE = r.space
       /\ conv = NoConv
       /\ Quiet

\* tasks making, using and dropping address spaces while other owners take
\* and return frames
NextKernel ==
    \/ calls < KernelMaxCalls /\ Len(spaces) < NumSpaces /\ NewSpace
    \/ \E sid \in LiveSpaces : calls < KernelMaxCalls /\ Map(sid, V1, DevA, USER_RW)
    \/ \E sid \in LiveSpaces :
           calls < KernelMaxCalls /\ MapAnonymous(sid, V3, PAGE_SIZE, USER_RW)
    \/ \E sid \in LiveSpaces : calls < KernelMaxCalls /\ PageFault(sid, V3, 2)
    \/ \E sid \in LiveSpaces : calls < KernelMaxCalls /\ Destroy(sid)
    \/ \E order \in {0, MAX_ORDER - 1} : calls < KernelMaxCalls /\ alloc_pages(order)
    \/ \E blk \in live : calls < KernelMaxCalls /\ free_pages(blk)

SpecKernel == InitKernel /\ [][NextKernel]_vars

\* ------------------------------------------------------------ heap callers
\* the slab caches whose used count differs between h0 and h1
Touched(h0, h1) == {i \in 1 .. NUM_SLABS : h1.slabs[i].used # h0.slabs[i].used}

HeapFrame ==
    UNCHANGED <<TOTAL_BYTES, live, held, freed, last, s2, spaces, anon, vlast, regs,
                life, KERNEL_SPACE, conv, cpu, ctx>>

\* HEAP.alloc(Layout { size, align }) by a caller that keeps the pointer
HeapAllocCall(size, align) ==
    LET Done(r) ==
            /\ SetK(r.k)
            /\ heap' = r.h
            /\ hp' = [live |-> IF r.ret = NullPtr \/ r.k.halt # "run" THEN hp.live
                               ELSE hp.live \cup {<<r.ret, size, align>>},
                      last |-> [op |-> "alloc", size |-> size, align |-> align,
                                ret |-> r.ret, n |-> calls + 1,
                                hit |-> Touched(heap, r.h),
                                fresh |-> \A x \in hp.live : x[1] # r.ret,
                                pmm0 |-> pmm, fb0 |-> FREE_BYTES],
                      log  |-> Append(hp.log, <<"alloc", Touched(heap, r.h), r.ret>>)]
    IN /\ halt = "run"
       /\ Done(HeapAlloc(heap, CurK, KERNEL_SPACE.pml4, size, align))
       /\ calls' = calls + 1
       /\ HeapFrame

\* HEAP.dealloc(ptr, Layout { size, align }) of an allocation the caller holds
HeapDeallocCall(x) ==
    LET Done(r) ==
            /\ SetK(r.k)
            /\ heap' = r.h
            /\ hp' = [live |-> hp.live \ {x},
                      last |-> [op |-> "dealloc", size |-> x[2], align |-> x[3],
                                ret |-> x[1], n |-> calls + 1,
                                hit |-> Touched(heap, r.h),
                                fresh |-> hp.last.op = "alloc" /\ hp.last.ret = x[1],
                                pmm0 |-> hp.last.pmm0, fb0 |-> hp.last.fb0],
                      log  |-> Append(hp.log, <<"dealloc", Touched(heap, r.h), x[1]>>)]
    IN /\ halt = "run"
       /\ x \in hp.live
       /\ Done(HeapDealloc(heap, CurK, x[1], x[2], x[3]))
       /\ calls' = calls + 1
       /\ HeapFrame

\* what other owners hold when the heap's callers start: nothing, every free
\* frame, or every free frame but the 1 MiB block at 16 MiB
Drained == <<10, 10, 10, 9, 8, 7, 6, 5, 3, 2>>
AllButTop == <<10, 10, 9, 9, 8, 8, 7, 6, 5, 3, 2>>
HeapHeldSeqs == {<<>>, Drained, AllButTop}

\* main: pmm::init(), vmm::init(), heap::init(); then other owners take the
\* blocks of seq and keep them
InitHeapAfter(seq) ==
    LET k0 == [pmm |-> PmmInit, fb |-> PmmInit.free_pages * PAGE_SIZE, mem |-> <<>>,
               halt |-> "run", expect |-> {}, unmapped |-> {}]
        Taken(a) ==
            /\ pmm = a.b
            /\ FREE_BYTES = a.b.free_pages * PAGE_SIZE
            /\ held = a.blocks
        Warm(v, g) ==
            /\ KERNEL_SPACE = v.space
            /\ mem = g.k.mem
            /\ halt = g.k.halt
            /\ heap = g.h
            /\ Taken(AllocSeq(g.k.pmm, {}, seq))
        Mapped(v) == Warm(v, heap_init(v.k, v.space.pml4))
    IN /\ Mapped(vmm_init(k0))
       /\ TOTAL_BYTES = PmmInit.total_pages * PAGE_SIZE
       /\ live = {}
       /\ freed = {}
       /\ last = [op |-> "init", order |-> 0, ret |-> None, n |-> 0]
       /\ calls = 0
       /\ s2 = S2Off
       /\ spaces = <<>>
       /\ expect = {}
       /\ unmapped = {}
       /\ anon = {}
       /\ vlast = NoCall
       /\ regs = {}
       /\ life = {}
       /\ conv = NoConv
       /\ hp = NoHp
       /\ cpu = arch_init
       /\ ctx = NoCtx

InitHeap == \E seq \in HeapHeldSeqs : InitHeapAfter(seq)

\* the layouts the heap's callers ask for: <<size, align>>
Layouts ==
    {<<1, 1>>, <<64, 8>>, <<40, 64>>, <<65, 1>>, <<2048, 16>>, <<2049, 1>>,
     <<16, 4096>>, <<12288, 8>>, <<8, 8192>>}

NextHeap ==
    \/ \E l \in Layouts : calls < HeapMaxCalls /\ HeapAllocCall(l[1], l[2])
    \/ \E x \in hp.live : calls < HeapMaxCalls /\ HeapDeallocCall(x)

SpecHeap == InitHeap /\ [][NextHeap]_vars

\* callers that take up to eight 64-byte objects and give back up to two of
\* them before asking for more
LifoObjects == 8
LifoLayouts == {<<64, 8>>, <<40, 64>>}

InitLifo == InitHeapAfter(<<>>)

NextLifo ==
    \/ \E l \in LifoLayouts :
           /\ calls < LifoMaxCalls
           /\ Cardinality(hp.live) < LifoObjects
           /\ (l = <<64, 8>> \/ Cardinality(hp.live) = LifoObjects - 1)
           /\ HeapAllocCall(l[1], l[2])
    \/ \E x \in hp.live :
           /\ calls < LifoMaxCalls
           /\ Cardinality(hp.live) > LifoObjects - 2
           /\ HeapDeallocCall(x)

SpecLifo == InitLifo /\ [][NextLifo]_vars

\* a caller that asks for objects of one slab class only, right after
\* heap::init, until the page of that class is used up and WarmExtra more
WarmExtra == 1

InitWarm == InitHeapAfter(<<>>)

NextWarm ==
    \E i \in 1 .. NUM_SLABS :
        /\ hp.last.op = "none" \/ hp.last.size = SLAB_SIZES[i]
        /\ calls < (PAGE_SIZE \div SLAB_SIZES[i]) + WarmExtra
        /\ HeapAllocCall(SLAB_SIZES[i], 1)

SpecWarm == InitWarm /\ [][NextWarm]_vars

\* --------------------------------------------------- interrupts and traps
ArchFrame ==
    UNCHANGED <<pmm, FREE_BYTES, TOTAL_BYTES, live, held, freed, last, s2, mem, spaces,
                expect, unmapped, anon, vlast, regs, life, KERNEL_SPACE, conv, heap, hp,
                ctx>>

\* the CPU and the kernel go where a delivery or a panic took them
ArchStep(r) ==
    /\ cpu' = r.cpu
    /\ halt' = r.halt
    /\ calls' = calls + 1
    /\ ArchFrame

\* a device raises an IRQ line
Raise(line) ==
    /\ halt # "reset"
    /\ line \notin cpu.pending
    /\ cpu' = [cpu EXCEPT !.pending = @ \cup {line}]
    /\ calls' = calls + 1
    /\ UNCHANGED halt
    /\ ArchFrame

\* line is pending, not masked, and no line of the same or a higher priority
\* is in service
Deliverable(c, line) ==
    /\ line \in c.pending
    /\ ~Masked(c, line)
    /\ IF line < 8 THEN \A j \in c.pic[1].isr : j > line
       ELSE /\ \A j \in c.pic[1].isr : j > 2
            /\ \A j \in c.pic[2].isr : j > line - 8

\* with the interrupt flag set the CPU takes the deliverable IRQ of highest
\* priority; this happens in the panic loop as anywhere else
Dispatch ==
    LET ready == {l \in cpu.pending : Deliverable(cpu, l)}
        Line(l) ==
            ArchStep(Deliver(InService([cpu EXCEPT !.pending = @ \ {l}], l), halt,
                          VectorOf(cpu, l), None, 0, 0))
    IN /\ halt # "reset"
       /\ cpu.iflag
       /\ ready # {}
       /\ Line(MinOf(ready))

\* the primary controller answers the CPU with its line 7 and no in-service
\* bit: a spurious interrupt
Spurious ==
    /\ halt # "reset"
    /\ cpu.iflag
    /\ ArchStep(Deliver(cpu, halt, VectorOf(cpu, 7), None, 0, 0))

\* kernel code raises exception v
Exception(v) ==
    /\ halt = "run"
    /\ ArchStep(Deliver(cpu, halt, v, None, 0, 0))

\* a task running in space sid reads or writes addr: the access completes if
\* the page is present (and writable for a write), else the CPU raises a page
\* fault with CR2 = addr and the error code P | W << 1 | U << 2
Access(sid, addr, write) ==
    LET leaf == LeafEntry(mem, spaces[sid].pml4, addr)
        ok   == is_present(leaf) /\ (write => WRITABLE \in leaf.flags)
        err  == (IF is_present(leaf) THEN 1 ELSE 0) + (IF write THEN 2 ELSE 0) + 4
    IN /\ halt = "run"
       /\ IF ok
          THEN ArchStep([cpu |-> [cpu EXCEPT !.access = <<sid, addr, "done">>],
                      halt |-> halt])
          ELSE ArchStep(Deliver([cpu EXCEPT !.access = <<sid, addr, "fault">>], halt, 14,
                             addr, err, sid))

\* kernel code outside any handler calls panic!
KernelPanic(reason) ==
    /\ halt = "run"
    /\ ArchStep(panic(cpu, reason))

\* the panics of ordinary kernel code: alloc_error and get_or_create
PanicReasons == {"Kernel heap OOM", "PMM: out of memory for page table"}

\* main after arch::init(), pmm::init() and two AddressSpace::new()
InitArch == InitVmmAfter(<<>>, 0)

NextArch ==
    \/ \E line \in {0, 1, 8} : calls < ArchMaxCalls /\ Raise(line)
    \/ calls < ArchMaxCalls /\ Dispatch
    \/ calls < ArchMaxCalls /\ Spurious
    \/ \E v \in {0, 6, 8, 13} : calls < ArchMaxCalls /\ Exception(v)
    \/ \E a \in {<<V1, FALSE>>, <<V3, TRUE>>, <<V3, FALSE>>} :
           calls < ArchMaxCalls /\ Access(1, a[1], a[2])
    \/ \E reason \in PanicReasons : calls < ArchMaxCalls /\ KernelPanic(reason)
    \/ calls < ArchMaxCalls /\ MapAnonymous(1, V3, PAGE_SIZE, USER_RW)
    \/ calls < ArchMaxCalls /\ Map(1, V1, DevA, USER_EX)

SpecArch == InitArch /\ [][NextArch]_vars

\* ------------------------------------------------- concurrent PMM callers
\* In these runs FREE_BYTES and TOTAL_BYTES hold the AtomicU64 words
\* themselves, as four 16-bit limbs, because fetch_sub wraps.
LeqU64(a, b) ==
    \/ a[4] < b[4]
    \/ a[4] = b[4] /\ a[3] < b[3]
    \/ a[4] = b[4] /\ a[3] = b[3] /\ a[2] < b[2]
    \/ a[4] = b[4] /\ a[3] = b[3] /\ a[2] = b[2] /\ a[1] <= b[1]

ConcFrame ==
    UNCHANGED <<TOTAL_BYTES, held, freed, last, s2, mem, spaces, halt, expect, unmapped,
                anon, vlast, regs, life, KERNEL_SPACE, conv, heap, hp, cpu>>

\* alloc_pages, first statement: PMM.lock().alloc(order)?, the lock released
\* at the end of the statement; on None the call returns at once
AllocLocked(c, order) ==
    LET Got(r) ==
            /\ pmm' = r.b
            /\ ctx' = [ctx EXCEPT ![c] = IF r.ret = None THEN IdleCtx
                                         ELSE [pc |-> "sub", addr |-> r.ret,
                                               order |-> order]]
    IN /\ ctx[c].pc = "idle"
       /\ Got(alloc(pmm, order))
       /\ calls' = calls + 1
       /\ UNCHANGED <<FREE_BYTES, live>>
       /\ ConcFrame

\* alloc_pages, the rest: FREE_BYTES.fetch_sub(PAGE_SIZE << order); Some(addr)
AllocCounted(c) ==
    /\ ctx[c].pc = "sub"
    /\ FREE_BYTES' = SubU64(FREE_BYTES, U64(AllocBytes(ctx[c].order))).val
    /\ live' = live \cup {<<ctx[c].addr, ctx[c].order>>}
    /\ ctx' = [ctx EXCEPT ![c] = IdleCtx]
    /\ calls' = calls + 1
    /\ UNCHANGED pmm
    /\ ConcFrame

\* free_pages of a block the callers hold, first statement:
\* PMM.lock().free(addr, order)
FreeLocked(c, blk) ==
    /\ ctx[c].pc = "idle"
    /\ blk \in live
    /\ pmm' = free(pmm, blk[1], blk[2])
    /\ live' = live \ {blk}
    /\ ctx' = [ctx EXCEPT ![c] = [pc |-> "add", addr |-> blk[1], order |-> blk[2]]]
    /\ calls' = calls + 1
    /\ UNCHANGED FREE_BYTES
    /\ ConcFrame

\* free_pages, the rest: FREE_BYTES.fetch_add(PAGE_SIZE << order)
FreeCounted(c) ==
    /\ ctx[c].pc = "add"
    /\ FREE_BYTES' = AddU64(FREE_BYTES, U64(FreeBytes(ctx[c].order))).val
    /\ ctx' = [ctx EXCEPT ![c] = IdleCtx]
    /\ calls' = calls + 1
    /\ UNCHANGED <<pmm, live>>
    /\ ConcFrame

\* other owners hold every frame but four
ConcHeld == <<10, 10, 10>> \o Descend(MAX_ORDER - 2, 2)

\* pmm::init(), then the blocks of ConcHeld taken by owners that keep them
InitConc ==
    LET a == AllocSeq(PmmInit, {}, ConcHeld)
    IN /\ pmm = a.b
       /\ TOTAL_BYTES = U64(PmmInit.total_pages * PAGE_SIZE)
       /\ FREE_BYTES = U64(a.b.free_pages * PAGE_SIZE)
       /\ held = a.blocks
       /\ live = {}
       /\ freed = {}
       /\ last = [op |-> "init", order |-> 0, ret |-> None, n |-> 0]
       /\ calls = 0
       /\ s2 = S2Off
       /\ mem = <<>>
       /\ spaces = <<>>
       /\ halt = "run"
       /\ expect = {}
       /\ unmapped = {}
       /\ anon = {}
       /\ vlast = NoCall
       /\ regs = {}
       /\ life = {}
       /\ KERNEL_SPACE = NoSpace
       /\ conv = NoConv
       /\ Quiet

NextConc ==
    \/ \E c \in Contexts : \E order \in {0, 1} :
           calls < ConcMaxCalls /\ AllocLocked(c, order)
    \/ \E c \in Contexts : calls < ConcMaxCalls /\ AllocCounted(c)
    \/ \E c \in Contexts : \E blk \in live : calls < ConcMaxCalls /\ FreeLocked(c, blk)
    \/ \E c \in Contexts : calls < ConcMaxCalls /\ FreeCounted(c)

SpecConc == InitConc /\ [][NextConc]_vars

\* ------------------------------------------------------ direct-map conversions
\* conv = [p, v, back, at, checks]: the physical address given, its direct-map
\* address, the physical address converted back, how far the calls have got,
\* and whether the build checks arithmetic overflow.
LimbVals == {0, 1, 4095, 4096, 32767, 32768, 65535}
Words == {<<a, b, c, d>> : a \in LimbVals, b \in LimbVals, c \in LimbVals, d \in LimbVals}

\* a caller about to convert the physical address w, or the virtual address w
InitConv ==
    \E w \in Words : \E checks \in BOOLEAN : \E from \in {"phys", "virt"} :
        /\ pmm = PmmInit
        /\ TOTAL_BYTES = PmmInit.total_pages * PAGE_SIZE
        /\ FREE_BYTES = PmmInit.free_pages * PAGE_SIZE
        /\ held = {}
        /\ live = {}
        /\ freed = {}
        /\ last = [op |-> "init", order |-> 0, ret |-> None, n |-> 0]
        /\ calls = 0
        /\ s2 = S2Off
        /\ mem = <<>>
        /\ spaces = <<>>
        /\ halt = "run"
        /\ expect = {}
        /\ unmapped = {}
        /\ anon = {}
        /\ vlast = NoCall
        /\ regs = {}
        /\ life = {}
        /\ KERNEL_SPACE = NoSpace
        /\ conv = IF from = "phys"
                  THEN [p |-> w, v |-> <<>>, back |-> <<>>, at |-> "phys", checks |-> checks]
                  ELSE [p |-> <<>>, v |-> w, back |-> <<>>, at |-> "virt", checks |-> checks]
        /\ Quiet

ConvFrame ==
    UNCHANGED <<pmm, FREE_BYTES, TOTAL_BYTES, live, held, freed, last, s2, mem, spaces,
                expect, unmapped, anon, vlast, regs, life, KERNEL_SPACE,
                rest>>

\* v = phys_to_virt(p)
PhysToVirt ==
    LET r == phys_to_virt(conv.p, conv.checks)
    IN /\ halt = "run"
       /\ conv.at = "phys"
       /\ conv' = IF r.panic THEN [conv EXCEPT !.at = "panic"]
                  ELSE [conv EXCEPT !.v = r.v, !.at = "virt"]
       /\ halt' = IF r.panic THEN "panic" ELSE halt
       /\ calls' = calls + 1
       /\ ConvFrame

\* back = virt_to_phys(v)
VirtToPhys ==
    LET r == virt_to_phys(conv.v, conv.checks)
    IN /\ halt = "run"
       /\ conv.at = "virt"
       /\ conv' = IF r.panic THEN [conv EXCEPT !.at = "panic"]
                  ELSE [conv EXCEPT !.back = r.p, !.at = "back"]
       /\ halt' = IF r.panic THEN "panic" ELSE halt
       /\ calls' = calls + 1
       /\ ConvFrame

NextConv ==
    \/ PhysToVirt
    \/ VirtToPhys

SpecConv == InitConv /\ [][NextConv]_vars

\* --------------------------------------------- the heap's and the PMM's locks
\* In these runs a context inside a call is
\*   [pc, op, size, align, idx, addr, order, grown, held]:
\* pc is "lock_slab" / "lock_pmm" while it spins in Mutex::lock, and "in_slab" /
\* "in_pmm" while it runs the code under the guard; held lists the mutexes it
\* holds in the order it took them; idx is the slab class (0 on the large path).
SlabMutex(i) == <<"slab", i>>
PmmMutex == <<"pmm", 0>>

\* the mutexes a context holds
HeldBy(x) == IF x.pc = "idle" THEN <<>> ELSE x.held

\* the mutex a context spins on: <<>> when it is not in Mutex::lock
Wants(x) ==
    IF x.pc = "lock_slab" THEN SlabMutex(x.idx)
    ELSE IF x.pc = "lock_pmm" THEN PmmMutex
    ELSE <<>>

\* the contexts that hold mutex m
Holders(m) == {c \in Contexts : \E j \in DOMAIN HeldBy(ctx[c]) : HeldBy(ctx[c])[j] = m}

\* a PMM call that asks for the mutex of the largest slab class while it still
\* holds the PMM mutex
PmmDoneThenSlab(x) ==
    IF Len(x.held) > 1 THEN [x EXCEPT !.held = <<x.held[1]>>, !.pc = "in_slab", !.grown = TRUE]
    ELSE [x EXCEPT !.pc = "lock_slab", !.idx = NUM_SLABS, !.op = "none"]

\* the end of the statement PMM.lock().alloc(..) / PMM.lock().free(..): the
\* guard is dropped; inside grow the context goes on under the slab mutex
PmmDone(x) ==
    IF Len(x.held) > 1 THEN [x EXCEPT !.held = <<x.held[1]>>, !.pc = "in_slab", !.grown = TRUE]
    ELSE IdleCtx

LockFrame ==
    UNCHANGED <<TOTAL_BYTES, held, freed, last, s2, spaces, anon, vlast, regs, life,
                KERNEL_SPACE, conv, cpu>>

KernelSame == UNCHANGED <<pmm, FREE_BYTES, mem, halt, expect, unmapped>>

\* HEAP.alloc(Layout { size, align }) up to its first lock(): HEAP_USED is
\* raised, then the slab-class mutex or, on the large path, the PMM mutex is asked for
LockCallAlloc(c, size, align) ==
    LET eff == EffectiveSize(size, align)
        idx == slab_index(eff)
    IN /\ halt = "run"
       /\ ctx[c].pc = "idle"
       /\ heap' = [heap EXCEPT !.used = @ + eff]
       /\ ctx' = [ctx EXCEPT ![c] =
                    [pc |-> IF idx # 0 THEN "lock_slab" ELSE "lock_pmm", op |-> "alloc",
                     size |-> size, align |-> align, idx |-> idx, addr |-> NullPtr,
                     order |-> IF idx # 0 THEN 0 ELSE LargeOrder(eff),
                     grown |-> FALSE, held |-> <<>>]]
       /\ calls' = calls + 1
       /\ KernelSame
       /\ UNCHANGED <<live, hp>>
       /\ LockFrame

\* HEAP.dealloc(ptr, layout) of an allocation the caller holds, up to its lock()
LockCallDealloc(c, x) ==
    LET eff == EffectiveSize(x[2], x[3])
        idx == slab_index(eff)
    IN /\ halt = "run"
       /\ ctx[c].pc = "idle"
       /\ x \in hp.live
       /\ hp' = [hp EXCEPT !.live = @ \ {x}]
       /\ heap' = [heap EXCEPT !.used = @ - eff]
       /\ ctx' = [ctx EXCEPT ![c] =
                    [pc |-> IF idx # 0 THEN "lock_slab" ELSE "lock_pmm", op |-> "dealloc",
                     size |-> x[2], align |-> x[3], idx |-> idx, addr |-> x[1],
                     order |-> IF idx # 0 THEN 0 ELSE LargeOrder(eff),
                     grown |-> FALSE, held |-> <<>>]]
       /\ calls' = calls + 1
       /\ KernelSame
       /\ UNCHANGED live
       /\ LockFrame

\* pmm::alloc_pages(order) up to PMM.lock()
LockCallPages(c, order) ==
    /\ halt = "run"
    /\ ctx[c].pc = "idle"
    /\ ctx' = [ctx EXCEPT ![c] =
                 [pc |-> "lock_pmm", op |-> "alloc_pages", size |-> 0, align |-> 0,
                  idx |-> 0, addr |-> None, order |-> order, grown |-> FALSE,
                  held |-> <<>>]]
    /\ calls' = calls + 1
    /\ KernelSame
    /\ UNCHANGED <<live, heap, hp>>
    /\ LockFrame

\* pmm::free_pages(addr, order) of a block the caller holds, up to PMM.lock()
LockCallFree(c, blk) ==
    /\ halt = "run"
    /\ ctx[c].pc = "idle"
    /\ blk \in live
    /\ live' = live \ {blk}
    /\ ctx' = [ctx EXCEPT ![c] =
                 [pc |-> "lock_pmm", op |-> "free_pages", size |-> 0, align |-> 0,
                  idx |-> 0, addr |-> blk[1], order |-> blk[2], grown |-> FALSE,
                  held |-> <<>>]]
    /\ calls' = calls + 1
    /\ KernelSame
    /\ UNCHANGED <<heap, hp>>
    /\ LockFrame

\* Mutex::lock returns: the mutex was free and is now held by c
Acquire(c) ==
    /\ halt = "run"
    /\ ctx[c].pc \in {"lock_slab", "lock_pmm"}
    /\ Holders(Wants(ctx[c])) = {}
    /\ ctx' = [ctx EXCEPT ![c] =
                 [@ EXCEPT !.held = Append(@, Wants(ctx[c])),
                           !.pc = IF ctx[c].pc = "lock_slab" THEN "in_slab" ELSE "in_pmm"]]
    /\ calls' = calls + 1
    /\ KernelSame
    /\ UNCHANGED <<live, heap, hp>>
    /\ LockFrame

\* the code run under a slab-class mutex.  SlabCache::alloc with an empty free
\* list calls grow, which calls pmm::alloc_page: the context asks for the PMM
\* mutex and keeps the slab-class mutex.  Otherwise the cell is popped, or (in
\* dealloc) pushed, and the guard is dropped at the end of the statement.
SlabSection(c) ==
    LET x == ctx[c]
        Popped(r) ==
            /\ heap' = r.h
            /\ hp' = IF r.ret = NullPtr THEN hp
                     ELSE [hp EXCEPT !.live = @ \cup {<<r.ret, x.size, x.align>>}]
            /\ ctx' = [ctx EXCEPT ![c] = IdleCtx]
    IN /\ halt = "run"
       /\ x.pc = "in_slab"
       /\ x.op \in {"alloc", "dealloc"}
       /\ IF x.op = "alloc" /\ heap.slabs[x.idx].free = NullPtr /\ ~x.grown
          THEN /\ ctx' = [ctx EXCEPT ![c] = [x EXCEPT !.pc = "lock_pmm"]]
               /\ UNCHANGED <<heap, hp>>
          ELSE IF x.op = "alloc"
          THEN Popped(SlabPop([h |-> heap, k |-> CurK], x.idx))
          ELSE /\ heap' = SlabFree(heap, x.idx, x.addr)
               /\ ctx' = [ctx EXCEPT ![c] = IdleCtx]
               /\ UNCHANGED hp
       /\ calls' = calls + 1
       /\ KernelSame
       /\ UNCHANGED live
       /\ LockFrame

\* the code run under the PMM mutex, and what the caller does with the result
\* before it needs another lock: grow slices the page, the large path of alloc
\* and alloc_pages hand the block out, dealloc and free_pages give it back
PmmSection(c) ==
    LET x == ctx[c]
        Phys(w) == w[2] * Limb + w[1]
        Grown(g) ==
            /\ SetK(g.k)
            /\ heap' = g.h
            /\ UNCHANGED <<live, hp>>
        Large(r) ==
            /\ SetK(r.k)
            /\ hp' = IF r.ret = None THEN hp
                     ELSE [hp EXCEPT !.live = @ \cup
                             {<<phys_to_virt(U64(r.ret), TRUE).v, x.size, x.align>>}]
            /\ UNCHANGED <<live, heap>>
        Pages(r) ==
            /\ SetK(r.k)
            /\ live' = IF r.ret = None THEN live ELSE live \cup {<<r.ret, x.order>>}
            /\ UNCHANGED <<heap, hp>>
    IN /\ halt = "run"
       /\ x.pc = "in_pmm"
       /\ IF x.op = "alloc" /\ x.idx # 0
          THEN Grown(grow(heap, CurK, KERNEL_SPACE.pml4, x.idx))
          ELSE IF x.op = "alloc" THEN Large(KAllocPages(CurK, x.order))
          ELSE IF x.op = "alloc_pages" THEN Pages(KAllocPages(CurK, x.order))
          ELSE /\ SetK(KFreePages(CurK,
                                  IF x.op = "dealloc"
                                  THEN Phys(virt_to_phys(x.addr, TRUE).p) ELSE x.addr,
                                  x.order))
               /\ UNCHANGED <<live, heap, hp>>
       /\ ctx' = [ctx EXCEPT ![c] = PmmDone(x)]
       /\ calls' = calls + 1
       /\ LockFrame

\* main: pmm::init(), vmm::init(), heap::init(); then a caller takes both cells
\* of the 2048-byte class and keeps them, so that the next allocation of that
\* class grows the slab
InitLock ==
    LET k0 == [pmm |-> PmmInit, fb |-> PmmInit.free_pages * PAGE_SIZE, mem |-> <<>>,
               halt |-> "run", expect |-> {}, unmapped |-> {}]
        Both(v, a, b) ==
            /\ KERNEL_SPACE = v.space
            /\ pmm = b.k.pmm
            /\ FREE_BYTES = b.k.fb
            /\ mem = b.k.mem
            /\ halt = b.k.halt
            /\ heap = b.h
            /\ hp = [NoHp EXCEPT !.live = {<<a.ret, 2048, 16>>, <<b.ret, 2048, 16>>}]
        Second(v, a) == Both(v, a, HeapAlloc(a.h, a.k, v.space.pml4, 2048, 16))
        First(v, g) == Second(v, HeapAlloc(g.h, g.k, v.space.pml4, 2048, 16))
        Mapped(v) == First(v, heap_init(v.k, v.space.pml4))
    IN /\ Mapped(vmm_init(k0))
       /\ TOTAL_BYTES = PmmInit.total_pages * PAGE_SIZE
       /\ held = {}
       /\ live = {}
       /\ freed = {}
       /\ last = [op |-> "init", order |-> 0, ret |-> None, n |-> 0]
       /\ calls = 0
       /\ s2 = S2Off
       /\ spaces = <<>>
       /\ expect = {}
       /\ unmapped = {}
       /\ anon = {}
       /\ vlast = NoCall
       /\ regs = {}
       /\ life = {}
       /\ conv = NoConv
       /\ cpu = arch_init
       /\ ctx = NoCtx

\* the steps the lock runs are cut off after
LockMaxCalls == 7

\* the layouts asked for: one that needs a new slab page, one of the large path
LockLayouts == {<<2048, 16>>, <<12288, 8>>}

NextLock ==
    \/ \E c \in Contexts : \E l \in LockLayouts :
           calls < LockMaxCalls /\ LockCallAlloc(c, l[1], l[2])
    \/ \E c \in Contexts : \E x \in hp.live : calls < LockMaxCalls /\ LockCallDealloc(c, x)
    \/ \E c \in Contexts : calls < LockMaxCalls /\ LockCallPages(c, 0)
    \/ \E c \in Contexts : \E blk \in live : calls < LockMaxCalls /\ LockCallFree(c, blk)
    \/ \E c \in Contexts : calls < LockMaxCalls /\ Acquire(c)
    \/ \E c \in Contexts : calls < LockMaxCalls /\ SlabSection(c)
    \/ \E c \in Contexts : calls < LockMaxCalls /\ PmmSection(c)
    \/ calls < LockMaxCalls /\ Raise(0)
    \/ calls < LockMaxCalls /\ Dispatch

SpecLock == InitLock /\ [][NextLock]_vars

\* ------------------------------------------------------------------ helpers
BlockIdx(blk) == ((blk[1] - pmm.mem_start) \div PAGE_SIZE) \div Pow2(blk[2])
BlockEnd(blk) == blk[1] + Pow2(blk[2]) * PAGE_SIZE
Disjoint(b1, b2) == BlockEnd(b1) <= b2[1] \/ BlockEnd(b2) <= b1[1]
Siblings(b1, b2) ==
    /\ b1[2] = b2[2]
    /\ BlockIdx(b1) # BlockIdx(b2)
    /\ BlockIdx(b1) \div 2 = BlockIdx(b2) \div 2

RECURSIVE BytesOf(_)
BytesOf(blocks) ==
    IF blocks = {} THEN 0
    ELSE LET blk == CHOOSE x \in blocks : TRUE
         IN Pow2(blk[2]) * PAGE_SIZE + BytesOf(blocks \ {blk})

\* ------------------------------------------------------------------- claims

\* C1: alloc_pages never returns a block that shares a page with a block that
\* is still allocated (every free having named a currently allocated block).
C1_NoOverlap ==
    [][(last'.n = calls + 1 /\ last'.op = "alloc" /\ last'.ret # None)
         => \A blk \in live \cup held : Disjoint(<<last'.ret, last'.order>>, blk)]_vars

C1_Witness ==
    /\ last.op = "alloc" /\ last.ret # None
    /\ Cardinality(live) >= 2
    /\ calls >= 4

\* C2: every address alloc_pages(order) returns, order in [0, MAX_ORDER), is a
\* multiple of 2^order * PAGE_SIZE.
C2_Aligned ==
    (last.op = "alloc" /\ last.ret # None /\ last.order < MAX_ORDER)
        => last.ret % (Pow2(last.order) * PAGE_SIZE) = 0

\* C3: once every block obtained from alloc_pages has been given back with its
\* own address and order, free_memory() is back at its value before the calls.
C3_Conservation ==
    (live = {}) => free_memory = TOTAL_BYTES - BytesOf(held)

C3_Witness ==
    /\ live = {} /\ last.op = "free" /\ last.order > 0
    /\ calls >= 4

\* C4: for k + 1 < MAX_ORDER, once both blocks of a buddy pair at order k have
\* been freed, alloc_pages(k + 1) returns Some.
C4_Coalesced ==
    \A b1 \in freed : \A b2 \in freed :
        (Siblings(b1, b2) /\ b1[2] + 1 < MAX_ORDER)
            => alloc(pmm, b1[2] + 1).ret # None

C4_Witness ==
    \E b1 \in freed : \E b2 \in freed :
        /\ Siblings(b1, b2) /\ b1[2] = MAX_ORDER - 2
        /\ Cardinality(held) = 3

\* C5: from a fresh PMM of N pages exactly N alloc_page calls return Some, the
\* next returns None without a panic, and free_memory() is then 0.
C5_Exhaustion ==
    /\ pmm.free_pages >= 0
    /\ (last.op = "alloc" /\ calls <= pmm.total_pages) => last.ret # None
    /\ (last.op = "alloc" /\ calls > pmm.total_pages)
          => (last.ret = None /\ free_memory = 0)

C5_Witness ==
    /\ last.op = "alloc" /\ last.ret = None
    /\ calls = pmm.total_pages + 1
    /\ pmm.total_pages = 4096

\* C6: on a fresh PMM four alloc_pages(3) return blocks aligned to 32 KiB, and
\* after freeing them in reverse order alloc_pages(5) returns the lowest of the
\* four bases.
C6_SplitMerge ==
    /\ (s2.on /\ Len(s2.got) >= 4)
          => /\ \A i \in 1 .. 4 : s2.got[i] % (32 * 1024) = 0
             /\ \A i \in 1 .. 4 : \A j \in 1 .. 4 : i # j => s2.got[i] # s2.got[j]
    /\ (s2.on /\ Len(s2.got) = 9)
          => /\ s2.got[9] # None
             /\ s2.got[9] = MinOf({s2.got[i] : i \in 1 .. 4})

C6_Witness == s2.on /\ Len(s2.got) = 9

\* C7: alloc_pages(order) with order >= MAX_ORDER returns None and leaves the
\* free bitmaps, the free page count and free_memory() unchanged.
C7_BadOrder ==
    [][(last'.n = calls + 1 /\ last'.op = "alloc" /\ last'.order >= MAX_ORDER)
         => (last'.ret = None /\ pmm' = pmm /\ FREE_BYTES' = FREE_BYTES)]_vars

C7_Witness ==
    /\ last.op = "alloc" /\ last.order >= MAX_ORDER /\ last.ret = None
    /\ live # {} /\ freed # {}

\* the pfn-th frame of the managed range lies in a free block of b
FrameFree(b, frame) ==
    LET pfn == (frame - b.mem_start) \div PAGE_SIZE
    IN frame >= b.mem_start /\ \E o \in Orders : (pfn \div Pow2(o)) \in b.free[o].bits

\* the page-table levels missing on the walk to virt
MissingTables(m, pml4_phys, virt) ==
    LET e0 == ReadEntry(m, pml4_phys, pml4_idx(virt))
        e1 == ReadEntry(m, phys_addr(e0), pdpt_idx(virt))
        e2 == ReadEntry(m, phys_addr(e1), pd_idx(virt))
    IN IF ~is_present(e0) THEN 3
       ELSE IF ~is_present(e1) THEN 2
       ELSE IF ~is_present(e2) THEN 1
       ELSE 0

\* C8 as stated: for every flags value f, translate(v) = Some(p) from map(v, p, f)
\* until the next unmap(v) or map(v, _) of that space, and translate(v) = None
\* after unmap(v).
C8_Original ==
    /\ \A x \in expect : translate_addr(mem, x[1], x[2]) = x[3]
    /\ \A u \in unmapped : translate_addr(mem, u[1], u[2]) = None

\* C8 amended: the same for every flags value f that contains PRESENT.
C8_RoundTrip ==
    /\ \A x \in expect : PRESENT \in x[4] => translate_addr(mem, x[1], x[2]) = x[3]
    /\ \A u \in unmapped : translate_addr(mem, u[1], u[2]) = None

C8_Witness ==
    /\ \E x \in expect : \E y \in expect :
          /\ x[1] = y[1] /\ x[2] # y[2]
          /\ PRESENT \in x[4] /\ PRESENT \in y[4]
    /\ \E u \in unmapped : \E x \in expect : u[1] # x[1] /\ u[2] = x[2]

\* what C9 promises of a fault step at vlast'.addr served with flags
FaultServed(flags) ==
    LET sp == spaces[vlast'.sid]
        a  == vlast'.addr
        t  == translate(mem', sp, a)
    IN /\ vlast'.ret = TRUE
       /\ halt' = "run"
       /\ t # None
       /\ t = PageOf(t) + (a % PAGE_SIZE)
       /\ FrameFree(pmm, PageOf(t)) /\ ~FrameFree(pmm', PageOf(t))
       /\ translate(mem', sp, PageOf(a)) = PageOf(t)
       /\ LeafEntry(mem', sp.pml4, a).flags = flags

IsFaultStep == vlast'.n = calls + 1 /\ vlast'.op = "fault"

\* C9 as stated: after map_anonymous(start, size, flags) with PRESENT in flags,
\* while the PMM has a free frame, a read fault at any a in [start, start+size)
\* returns true and leaves a mapped at a frame newly taken from the PMM, with
\* the region's flags.
C9_Original ==
    [][\A c \in anon :
         (/\ IsFaultStep
          /\ c[1] = spaces[vlast'.sid].pml4
          /\ PRESENT \in c[4]
          /\ vlast'.addr >= c[2] /\ vlast'.addr < c[2] + c[3]
          /\ (vlast'.err \div 2) % 2 = 0
          /\ alloc(pmm, 0).ret # None)
         => FaultServed(c[4])]_vars

\* C9 amended: the same when the first recorded region containing a is an
\* Anonymous region with PRESENT in its flags, and the PMM has a free frame for
\* the page and one for every page-table level missing on the walk to a.
C9_LazyFault ==
    [][LET sp == spaces[vlast'.sid]
           i  == find_vma(sp, vlast'.addr)
       IN (/\ IsFaultStep
           /\ i # 0
           /\ sp.vmas[i].kind = Anonymous
           /\ PRESENT \in sp.vmas[i].flags
           /\ (vlast'.err \div 2) % 2 = 0
           /\ pmm.free_pages >= 1 + MissingTables(mem, sp.pml4, vlast'.addr))
          => FaultServed(sp.vmas[i].flags)]_vars

C9_Witness ==
    /\ vlast.op = "fault" /\ vlast.ret = TRUE /\ vlast.n = calls
    /\ vlast.addr % PAGE_SIZE # 0
    /\ translate(mem, spaces[vlast.sid], vlast.addr) # None
    /\ pmm.free_pages = 0

\* C10: whenever handle_page_fault maps a frame into an Anonymous region, every
\* byte of the frame is zero when the mapping appears, whatever it held before.
C10_Zeroed ==
    [][(IsFaultStep /\ vlast'.ret = TRUE)
         => LET sp == spaces[vlast'.sid]
                e  == LeafEntry(mem', sp.pml4, vlast'.addr)
            IN /\ e # ZeroEntry
               /\ FrameIsZero(mem', e.phys)]_vars

C10_Witness ==
    /\ vlast.op = "fault" /\ vlast.ret = TRUE /\ vlast.n = calls
    /\ \E blk \in freed : blk[1] = LeafEntry(mem, spaces[vlast.sid].pml4, vlast.addr).phys

\* the region handle_page_fault finds for the fault of this step, 0 if none
FaultRegion == find_vma(spaces[vlast'.sid], vlast'.addr)

\* the fault of this step changed neither the frames nor the PMM
FaultTouchedNothing ==
    /\ mem' = mem /\ pmm' = pmm /\ FREE_BYTES' = FREE_BYTES
    /\ spaces' = spaces /\ halt' = "run"

\* C11: a write fault (error bit 1 set) whose region lacks WRITABLE returns
\* false, allocates no frame and installs no mapping.
C11_WriteDenied ==
    [][(/\ IsFaultStep
        /\ FaultRegion # 0
        /\ WRITABLE \notin spaces[vlast'.sid].vmas[FaultRegion].flags
        /\ (vlast'.err \div 2) % 2 = 1)
       => (vlast'.ret = FALSE /\ FaultTouchedNothing)]_vars

C11_Witness ==
    /\ vlast.op = "fault" /\ vlast.n = calls /\ vlast.ret = FALSE
    /\ (vlast.err \div 2) % 2 = 1
    /\ LET i == find_vma(spaces[vlast.sid], vlast.addr)
       IN /\ i # 0
          /\ spaces[vlast.sid].vmas[i].kind = Anonymous
          /\ WRITABLE \notin spaces[vlast.sid].vmas[i].flags
    /\ pmm.free_pages >= 4

\* C12: handle_page_fault returns true only for an address inside a recorded
\* Anonymous region; with no region, or a Shared or Kernel region, it returns
\* false and changes neither the page tables nor the PMM.
C12_OnlyAnonymous ==
    [][IsFaultStep
       => /\ (vlast'.ret = TRUE
                => /\ FaultRegion # 0
                   /\ spaces[vlast'.sid].vmas[FaultRegion].kind = Anonymous)
          /\ ((\/ FaultRegion = 0
               \/ spaces[vlast'.sid].vmas[FaultRegion].kind # Anonymous)
                => (vlast'.ret = FALSE /\ FaultTouchedNothing))]_vars

C12_Witness ==
    /\ vlast.op = "fault" /\ vlast.n = calls /\ vlast.ret = FALSE
    /\ (vlast.err \div 2) % 2 = 0
    /\ LET i == find_vma(spaces[vlast.sid], vlast.addr)
       IN i # 0 /\ spaces[vlast.sid].vmas[i].kind = Kernel
    /\ \E r \in regs : r[2] = V1 /\ r[4] = TRUE
    /\ pmm.free_pages >= 4

ProbeAddrs == {V1, V2, V2 + 564, V3, V3 + PAGE_SIZE, FillerStart}

IsAnonStep == vlast'.n = calls + 1 /\ vlast'.op = "map_anonymous"

\* the step installed no page-table entry and took no frame
NoFrameEffect ==
    /\ mem' = mem /\ pmm' = pmm /\ FREE_BYTES' = FREE_BYTES /\ halt' = "run"
    /\ free_memory' = free_memory
    /\ \A sid \in DOMAIN spaces : \A a \in ProbeAddrs :
          translate(mem', spaces'[sid], a) = translate(mem, spaces[sid], a)

\* the step appended the region of the call to the region table of its space
\* and changed nothing else in the address spaces
AnonRecorded ==
    \E c \in anon' :
        /\ c[1] = spaces[vlast'.sid].pml4 /\ c[2] = vlast'.addr
        /\ spaces' = [spaces EXCEPT ![vlast'.sid].vmas =
                         Append(@, Vma(c[2], c[2] + c[3], c[4], Anonymous))]

\* C14 as stated: map_anonymous records one region [start, start+size) and
\* nothing else: no page-table entry, no frame, translate and free_memory()
\* unchanged.
C14_Original ==
    [][IsAnonStep => (AnonRecorded /\ NoFrameEffect)]_vars

\* C14 amended: map_anonymous records the region and returns true when fewer
\* than 64 regions are recorded, and records nothing and returns false
\* otherwise; either way it installs no page-table entry and takes no frame.
C14_Lazy ==
    [][IsAnonStep
       => /\ NoFrameEffect
          /\ vlast'.ret = (Len(spaces[vlast'.sid].vmas) < VMA_CAP)
          /\ IF vlast'.ret THEN AnonRecorded ELSE spaces' = spaces]_vars

C14_Witness ==
    /\ vlast.op = "map_anonymous" /\ vlast.n = calls /\ vlast.ret = TRUE
    /\ translate(mem, spaces[vlast.sid], V1) # None
    /\ translate(mem, spaces[vlast.sid], V3) = None
    /\ vlast.addr = V3
    /\ Len(spaces[vlast.sid].vmas) >= 2

\* byte offsets into a region of the given size at which translate is read
Offsets(size) ==
    {o \in {0, 1, PAGE_SIZE - 1, PAGE_SIZE, PAGE_SIZE + 99, 2 * PAGE_SIZE - 1} : o < size}
        \cup {size - 1}

\* C15: after map_shared(start, phys, size, flags) returns true, with start
\* and phys page-aligned and PRESENT in flags, the region [start, start+size)
\* of kind Shared(phys) is recorded and translate(start + o) = phys + o for
\* every offset o in [0, size).
C15_SharedMapped ==
    [][\A c \in SharedArgs :
         (/\ vlast'.n = calls + 1 /\ vlast'.op = "map_shared"
          /\ vlast'.addr = c[1] /\ vlast'.ret = TRUE)
         => LET sp == spaces'[vlast'.sid]
            IN /\ Len(sp.vmas) = Len(spaces[vlast'.sid].vmas) + 1
               /\ sp.vmas[Len(sp.vmas)] = Vma(c[1], c[1] + c[3], c[4], Shared(c[2]))
               /\ \A o \in Offsets(c[3]) :
                     translate(mem', sp, c[1] + o) = c[2] + o]_vars

C15_Witness ==
    /\ vlast.op = "map_shared" /\ vlast.n = calls /\ vlast.ret = TRUE
    /\ vlast.addr = V3
    /\ translate(mem, spaces[vlast.sid], V3 + PAGE_SIZE + 99) = DevB + PAGE_SIZE + 99
    /\ \E x \in expect : x[2] = V3 /\ x[3] = DevB
    /\ calls >= 3

\* find_vma(a) returns a region that contains a
FoundContains(sid, a) ==
    LET i == find_vma(spaces[sid], a)
    IN i # 0 => contains(spaces[sid].vmas[i], a)

\* C16 as stated: in runs of map_anonymous / map_shared calls, find_vma(a) is
\* Some(region) iff an earlier map_anonymous or map_shared call covered a,
\* and the region returned contains a.
C16_Original ==
    (halt = "run" /\ \A r \in regs : r[5] # "add_vma")
        => \A sid \in DOMAIN spaces : \A a \in ProbeAddrs :
              /\ (find_vma(spaces[sid], a) # 0)
                    <=> (\E r \in regs : r[1] = sid /\ r[2] <= a /\ a < r[3])
              /\ FoundContains(sid, a)

\* C16 amended: find_vma(a) is Some(region) iff an earlier map_anonymous,
\* map_shared or add_vma call that returned true covered a, and the region
\* returned contains a.
C16_FindVma ==
    halt = "run"
        => \A sid \in DOMAIN spaces : \A a \in ProbeAddrs :
              /\ (find_vma(spaces[sid], a) # 0)
                    <=> (\E r \in regs : r[1] = sid /\ r[2] <= a /\ a < r[3] /\ r[4])
              /\ FoundContains(sid, a)

C16_Witness ==
    /\ halt = "run"
    /\ \E r \in regs : r[1] = 1 /\ r[2] <= V1 /\ V1 < r[3] /\ r[4]
    /\ \E r \in regs : r[1] = 1 /\ r[2] = V3 /\ ~r[4]
    /\ find_vma(spaces[1], V1) # 0
    /\ find_vma(spaces[1], V3) = 0
    /\ find_vma(spaces[1], FillerStart) # 0

\* ------------------------------------------------------------------- C17
\* C17: every address space made by AddressSpace::new once the kernel address
\* space exists has the upper-half L4 entries 256 .. 511 of the kernel address
\* space, so that a direct-map address translates in it as it does in the
\* kernel address space.
C17_UpperHalf ==
    KERNEL_SPACE # NoSpace
        => \A sid \in DOMAIN spaces :
              /\ \A i \in 256 .. 511 :
                    ReadEntry(mem, spaces[sid].pml4, i)
                        = ReadEntry(mem, KERNEL_SPACE.pml4, i)
              /\ translate_addr64(mem, spaces[sid].pml4, PHYSICAL_MAP_OFFSET)
                    = translate_addr64(mem, KERNEL_SPACE.pml4, PHYSICAL_MAP_OFFSET)

\* ------------------------------------------------------------------- C18
\* C18: destroying an address space returns its L4 frame, its page-table
\* frames and its leaf frames to the PMM: once an address space has been
\* created, used and dropped, with no other address space made and no other
\* owner taking or returning frames, free_memory() is what it was before the
\* creation.
C18_DestroyFrees ==
    \A x \in life :
        (x[3] = "dropped" /\ Cardinality(life) = 1 /\ last.op = "init")
            => free_memory = x[2]

\* ------------------------------------------------------------------- C20
\* C20: every frame alloc_pages returns lies in the physical range vmm::init
\* maps into the direct-map window: in the kernel address space
\* phys_to_virt(frame) is mapped, to the frame itself.
C20_DirectMapped ==
    (KERNEL_SPACE # NoSpace /\ last.op = "alloc" /\ last.ret # None)
        => \A i \in 0 .. (Pow2(last.order) - 1) : \A checks \in BOOLEAN :
              translate_addr64(mem, KERNEL_SPACE.pml4,
                               phys_to_virt(U64(last.ret + i * PAGE_SIZE), checks).v)
                  = last.ret + i * PAGE_SIZE

\* ------------------------------------------------------------------- C19
\* a physical address that has a direct-map address: p + PHYSICAL_MAP_OFFSET
\* fits 64 bits, i.e. p < 2^47
ValidPhys(p) == p[4] = 0 /\ p[3] < 32768

\* C19: for every valid physical address p, in 64-bit arithmetic,
\* virt_to_phys(phys_to_virt(p)) == p: neither call panics, and the address
\* that comes back is p.
C19_DirectMapIdentity ==
    (conv.p # <<>> /\ ValidPhys(conv.p))
        => /\ conv.at # "panic"
           /\ conv.at = "virt" => conv.v = AddU64(conv.p, PHYSICAL_MAP_OFFSET).val
           /\ conv.at = "back" => conv.back = conv.p

C19_Witness ==
    /\ conv.at = "back"
    /\ conv.checks
    /\ conv.p = <<4095, 65535, 32767, 0>>
    /\ conv.v = <<4095, 65535, 65535, 65535>>

\* ------------------------------------------------------------------- C21
\* the physical address behind a direct-map pointer returned by the heap
PtrPhys(ptr) ==
    LET Low(w) == w[2] * Limb + w[1]
    IN Low(virt_to_phys(ptr, TRUE).p)

\* the size class of a layout: the smallest class that is at least
\* max(size, align), 0 when there is none
ClassSize(size, align) ==
    LET fit == {SLAB_SIZES[i] : i \in 1 .. NUM_SLABS} \cap (Max(size, align) .. 2048)
    IN IF fit = {} THEN 0 ELSE MinOf(fit)

SameClass(x, y) ==
    ClassSize(x[2], x[3]) # 0 /\ ClassSize(x[2], x[3]) = ClassSize(y[2], y[3])

\* C21: with every dealloc matching a live allocation and its layout, any two
\* live allocations of one size class have distinct addresses and cells
\* [addr, addr + class_size) that do not overlap; an alloc never returns a
\* pointer that is still held.
C21_Distinct ==
    /\ \A x \in hp.live : x[1] # NullPtr
    /\ \A x \in hp.live : \A y \in hp.live :
          (x # y /\ SameClass(x, y))
              => \/ PtrPhys(x[1]) + ClassSize(x[2], x[3]) <= PtrPhys(y[1])
                 \/ PtrPhys(y[1]) + ClassSize(y[2], y[3]) <= PtrPhys(x[1])
    /\ (hp.last.op = "alloc" /\ hp.last.ret # NullPtr) => hp.last.fresh

\* two successive allocs of one class, the second returning a cell that was
\* freed earlier, with eight allocations of the class live
C21_Witness ==
    /\ hp.last.op = "alloc"
    /\ Len(hp.log) >= 4
    /\ hp.log[Len(hp.log) - 1][1] = "alloc"
    /\ \E i \in 1 .. Len(hp.log) : hp.log[i] = <<"dealloc", {4}, hp.last.ret>>
    /\ Cardinality(hp.live) = LifoObjects
    /\ \E x \in hp.live : \E y \in hp.live :
          /\ x # y /\ SameClass(x, y) /\ x[2] # y[2]
          /\ y[1] = hp.last.ret /\ x[1] = hp.log[Len(hp.log) - 1][3]

\* ------------------------------------------------------------------- C22
\* The calls log[i ..] against the cells freed and not yet handed out again,
\* per class, most recent last: an alloc of a class with such cells returns
\* the most recent one.
RECURSIVE LifoFrom(_, _, _)
LifoFrom(log, i, pend) ==
    LET e == log[i]
        c == CHOOSE c \in e[2] : TRUE
        Pushed == [pend EXCEPT ![c] = Append(@, e[3])]
        Popped == [pend EXCEPT ![c] = SubSeq(@, 1, Len(@) - 1)]
    IN IF i > Len(log) THEN TRUE
       ELSE IF e[2] = {} THEN LifoFrom(log, i + 1, pend)
       ELSE IF e[1] = "dealloc" THEN LifoFrom(log, i + 1, Pushed)
       ELSE IF pend[c] = <<>> THEN LifoFrom(log, i + 1, pend)
       ELSE e[3] = pend[c][Len(pend[c])] /\ LifoFrom(log, i + 1, Popped)

\* C22: each slab class is a LIFO stack of free cells: after cells x1, ..., xn
\* of one class are freed in that order with no allocation of that class in
\* between, the next n allocations of the class return xn, ..., x1.
C22_Lifo == LifoFrom(hp.log, 1, [c \in 1 .. NUM_SLABS |-> <<>>])

\* eight 64-byte objects a1 .. a8, a3 and a7 freed, and the next two
\* allocations made
C22_Witness ==
    /\ Len(hp.log) = 12
    /\ \A i \in 1 .. 8 : hp.log[i][1] = "alloc" /\ hp.log[i][2] = {4}
    /\ Cardinality({hp.log[i][3] : i \in 1 .. 8}) = 8
    /\ hp.log[9] = <<"dealloc", {4}, hp.log[3][3]>>
    /\ hp.log[10] = <<"dealloc", {4}, hp.log[7][3]>>
    /\ hp.log[11] = <<"alloc", {4}, hp.log[7][3]>>
    /\ hp.log[12] = <<"alloc", {4}, hp.log[3][3]>>

\* ------------------------------------------------------------------- C23
\* the slab caches of the class a layout belongs to: one cache, or none when
\* max(size, align) > 2048
ClassOf(size, align) == {i \in 1 .. NUM_SLABS : SLAB_SIZES[i] = ClassSize(size, align)}

\* C23: for every layout, alloc and dealloc work on the same class, the
\* smallest one of 8 .. 2048 that is >= max(size, align), and on no slab
\* cache at all (the PMM path) exactly when max(size, align) > 2048; every
\* pointer a slab class s returns is a multiple of s.
C23_SameClass ==
    LET c == hp.last
    IN /\ (c.op = "alloc" /\ c.ret # NullPtr) =>
              /\ c.hit = ClassOf(c.size, c.align)
              /\ (c.hit = {}) = (Max(c.size, c.align) > 2048)
              /\ \A i \in c.hit : c.ret[1] % SLAB_SIZES[i] = 0
              /\ c.hit = {} => FREE_BYTES # c.fb0
       /\ c.op = "dealloc" =>
              /\ c.hit = ClassOf(c.size, c.align)
              /\ (c.hit = {}) = (Max(c.size, c.align) > 2048)
              /\ \E i \in 1 .. Len(hp.log) - 1 : hp.log[i] = <<"alloc", c.hit, c.ret>>

\* a 40-byte object aligned to 64 given back to the 64-byte class after a
\* request above 2048 bytes went to the PMM
C23_Witness ==
    /\ hp.last.op = "dealloc"
    /\ hp.last.size = 40 /\ hp.last.align = 64
    /\ hp.last.hit = {4}
    /\ \E i \in 1 .. Len(hp.log) :
          hp.log[i][1] = "alloc" /\ hp.log[i][2] = {} /\ hp.log[i][3] # NullPtr

\* ------------------------------------------------------------------- C24
\* ceil(log2(ceil(size / PAGE_SIZE)))
CeilLog2Pages(size) ==
    LET pages == (size + PAGE_SIZE - 1) \div PAGE_SIZE
    IN MinOf({o \in 0 .. 2 * MAX_ORDER : Pow2(o) >= pages})

C25_FaultForwarded ==
    LET r == cpu.ran
        Served(f) ==
            IF f.ret THEN halt = "run" /\ translate(mem, spaces[r.sid], r.cr2) # None
            ELSE halt = "panic"
    IN (r.vec = 14 /\ cpu.access = <<r.sid, r.cr2, "fault">>)
           => Served(handle_page_fault([CurK EXCEPT !.halt = "run"], spaces[r.sid],
                                       r.cr2, r.err))

\* ------------------------------------------------------------------- C26
\* C26: after gdt::init and idt::init the double-fault gate (vector 0x08)
\* selects IST index 1 and TSS IST slot 1 holds the non-zero top of a stack
\* other than the ring-0 stack, so a double fault is delivered on that stack.
C26_DoubleFaultStack ==
    /\ GatePresent(cpu.idt[8])
    /\ cpu.idt[8].ist = 1
    /\ cpu.tss.ist[1] # 0
    /\ cpu.tss.ist[1] # cpu.tss.rsp0
    /\ cpu.ran.vec = 8 => cpu.ran.stack = cpu.tss.ist[1] /\ halt = "panic"

\* ------------------------------------------------------------------- C27
\* C27: after pic_init every IRQ line 0 .. 15 is masked except IRQ 0, and
\* every unmasked IRQ line is delivered to a vector with a present IDT gate.
C27_OnlyTimer ==
    /\ \A line \in 0 .. 15 : ~Masked(cpu, line) <=> line = 0
    /\ \A line \in 0 .. 15 : ~Masked(cpu, line) => GatePresent(cpu.idt[VectorOf(cpu, line)])

\* ------------------------------------------------------------------- C28
\* the command ports written, in order
Ports(out) == [i \in 1 .. Len(out) |-> out[i][1]]

\* C28: End-Of-Interrupt for an IRQ number >= 8 is written to the secondary
\* and the primary controller, for an IRQ number < 8 to the primary only; on
\* every timer tick (IRQ 0, vector 0x20) the timer handler sends
\* End-Of-Interrupt to the primary controller only.
C28_TimerEoi ==
    /\ \A irq \in 0 .. 15 :
          Ports(pic_eoi([cpu EXCEPT !.out = <<>>], irq).out)
              = IF irq >= 8 THEN <<PIC2_CMD, PIC1_CMD>> ELSE <<PIC1_CMD>>
    /\ cpu.ran.vec = 32 => cpu.out = <<<<PIC1_CMD, 32>>>>

\* ------------------------------------------------------------------- C29
\* C29: every kernel panic, raised from a trap handler or from ordinary
\* kernel code running with interrupts enabled, prints its reason to the
\* serial console and then stays in the halt loop with interrupts disabled:
\* no interrupt handler runs after a panic.
C29_PanicHalts ==
    /\ halt = "panic" => cpu.serial # <<>> /\ ~cpu.iflag
    /\ cpu.after = {}

\* ------------------------------------------------------------------- C30
\* C30: the PMM and its statistics are linearisable: under every interleaving
\* of alloc_pages and free_pages calls from two or more contexts,
\* free_memory() read at any moment is at most total_memory() (the counter
\* never wraps below zero), and whenever no call is in flight it equals
\* PAGE_SIZE times the allocator's free page count.
C30_Linearisable ==
    /\ LeqU64(free_memory, total_memory)
    /\ (\A c \in Contexts : ctx[c].pc = "idle")
           => free_memory = U64(PAGE_SIZE * pmm.free_pages)

\* ------------------------------------------------------------------- C31
\* the blocks marked free: <<order, index>> for every set bit
FreeBlocks(b) == UNION {{<<o, i>> : i \in b.free[o].bits} : o \in Orders}

\* the pages two free blocks cover do not meet
FreeApart(x, y) ==
    \/ (x[2] + 1) * Pow2(x[1]) <= y[2] * Pow2(y[1])
    \/ (y[2] + 1) * Pow2(y[1]) <= x[2] * Pow2(x[1])

\* the pages the set bits of orders o .. MAX_ORDER - 1 stand for
RECURSIVE FreePagesFrom(_, _)
FreePagesFrom(b, o) ==
    IF o >= MAX_ORDER THEN 0
    ELSE Cardinality(b.free[o].bits) * Pow2(o) + FreePagesFrom(b, o + 1)

\* C31: in every reachable PMM state each page of the managed range is
\* covered by at most one set free bit across all orders (no two free blocks
\* overlap), every set bit lies inside the managed range, and free_pages is
\* the sum over the orders of set bits * 2^order.
C31_OneOrder ==
    LET blocks == FreeBlocks(pmm)
    IN /\ \A x \in blocks : \A y \in blocks : x # y => FreeApart(x, y)
       /\ \A x \in blocks : (x[2] + 1) * Pow2(x[1]) <= pmm.total_pages
       /\ pmm.free_pages = FreePagesFrom(pmm, 0)

\* blocks of three orders given back, with free blocks at four orders or more
C31_Witness ==
    /\ last.op = "free"
    /\ calls = MaxCalls
    /\ Cardinality(live) >= 1
    /\ Cardinality({o \in Orders : pmm.free[o].bits # {}}) >= 4

\* ------------------------------------------------------------------- C32
\* blocks i and i XOR 1 of one order are both marked free
BothHalvesFree(b, o) ==
    \E i \in b.free[o].bits : (i % 2 = 0) /\ (i + 1) \in b.free[o].bits

\* the statement as written, for every order in [0, MAX_ORDER): violated by
\* the state pmm::init leaves, whose order MAX_ORDER - 1 blocks 0 and 1 are
\* both free
C32_Original == \A o \in Orders : ~BothHalvesFree(pmm, o)

\* C32: in every reachable PMM state, for every order below MAX_ORDER - 1
\* (the orders merge_all and free coalesce) and every block index i, blocks
\* i and i XOR 1 of that order are never both marked free.
C32_NoFreeBuddies == \A o \in Orders : o < MAX_ORDER - 1 => ~BothHalvesFree(pmm, o)

\* a block was given back next to its free buddy and was coalesced upwards
C32_Witness ==
    /\ last.op = "free"
    /\ last.order < MAX_ORDER - 1
    /\ live # {}
    /\ \E o \in Orders : o > last.order /\ o < MAX_ORDER - 1
                            /\ (((last.ret - RegionStart) \div PAGE_SIZE) \div Pow2(o)) \in pmm.free[o].bits

\* ------------------------------------------------------------------- C33
\* two recorded regions share no address
RegionsApart(a, b) == a.end <= b.start \/ b.end <= a.start

\* C33: after any sequence of map_anonymous, map_shared and add_vma calls on
\* one address space, the regions recorded in it are pairwise non-overlapping.
C33_RegionsDisjoint ==
    \A sid \in DOMAIN spaces :
        \A i \in DOMAIN spaces[sid].vmas : \A j \in DOMAIN spaces[sid].vmas :
            i # j => RegionsApart(spaces[sid].vmas[i], spaces[sid].vmas[j])

\* ------------------------------------------------------------------- C34
\* the table entries <<frame, index>> that differ between two memories
EntriesChanged(m1, m2) ==
    {x \in UNION {{<<f, i>> : i \in (IF f \in DOMAIN m1 THEN DOMAIN m1[f] ELSE {})
                                       \cup (IF f \in DOMAIN m2 THEN DOMAIN m2[f] ELSE {})}
                     : f \in DOMAIN m1 \cup DOMAIN m2} :
        ReadEntry(m1, x[1], x[2]) # ReadEntry(m2, x[1], x[2])}

\* the page table the walk for virt ends in, None if a level is not present
LeafTable(m, pml4_phys, virt) ==
    LET e0 == ReadEntry(m, pml4_phys, pml4_idx(virt))
        e1 == ReadEntry(m, phys_addr(e0), pdpt_idx(virt))
        e2 == ReadEntry(m, phys_addr(e1), pd_idx(virt))
    IN IF is_present(e0) /\ is_present(e1) /\ is_present(e2) THEN phys_addr(e2) ELSE None

\* C34: unmap(v) changes at most the leaf PTE for v: it frees and allocates
\* no frame (free_memory() and the allocator are unchanged), alters no
\* intermediate table entry and no region, and changes nothing at all when a
\* level of the walk is not present.
C34_UnmapLeafOnly ==
    [][(vlast'.op = "unmap" /\ calls' = calls + 1) =>
          LET pml4 == spaces[vlast'.sid].pml4
              v    == vlast'.addr
          IN /\ pmm' = pmm
             /\ FREE_BYTES' = FREE_BYTES
             /\ spaces' = spaces
             /\ halt' = halt
             /\ DOMAIN mem' = DOMAIN mem
             /\ EntriesChanged(mem, mem') \subseteq
                    {<<LeafTable(mem, pml4, v), pt_idx(v)>>}
             /\ LeafTable(mem, pml4, v) = None => mem' = mem]_vars

\* an unmap has walked three present levels and cleared the leaf, while
\* another page of the same table stays mapped
C34_Witness ==
    /\ vlast.op = "unmap"
    /\ LeafTable(mem, spaces[vlast.sid].pml4, vlast.addr) # None
    /\ LeafEntry(mem, spaces[vlast.sid].pml4, vlast.addr) = ZeroEntry
    /\ DOMAIN mem[LeafTable(mem, spaces[vlast.sid].pml4, vlast.addr)] # {}

\* ------------------------------------------------------------------- C35
\* the page of a pointer
PageOfPtr(p) == <<p[1] \div PAGE_SIZE, p[2], p[3], p[4]>>

\* the free cells in the page the free list of class i starts in
FreeCells(h, i) ==
    IF h.slabs[i].free = NullPtr THEN {}
    ELSE {p \in DOMAIN h.nodes : PageOfPtr(p) = PageOfPtr(h.slabs[i].free)}

\* the free list of class i is a chain of exactly n cells of one page,
\* obj_size apart: it starts at the lowest cell, every cell links to a higher
\* cell of the page or ends the list, and no two cells link to the same one
HoldsCells(h, i, n) ==
    LET WithCells(cells) ==
            /\ Cardinality(cells) = n
            /\ n = 0 <=> h.slabs[i].free = NullPtr
            /\ \A c \in cells :
                  /\ (c[1] % PAGE_SIZE) % SLAB_SIZES[i] = 0
                  /\ c[1] >= h.slabs[i].free[1]
                  /\ \/ h.nodes[c] = NullPtr
                     \/ h.nodes[c] \in cells /\ h.nodes[c][1] > c[1]
            /\ Cardinality({h.nodes[c] : c \in cells}) = n
    IN WithCells(FreeCells(h, i))

\* the free pages the PMM has when heap::init is called
FreePagesBeforeHeap ==
    vmm_init([pmm |-> PmmInit, fb |-> PmmInit.free_pages * PAGE_SIZE, mem |-> <<>>,
              halt |-> "run", expect |-> {}, unmapped |-> {}]).k.pmm.free_pages

\* C35: after heap::init (called by main with more than nine free frames)
\* each of the nine classes s holds exactly PAGE_SIZE / s free cells and the
\* PMM has nine fewer free pages; the first PAGE_SIZE / s allocations of a
\* class return a cell and are served without calling the PMM.
C35_WarmSlabs ==
    /\ calls = 0 =>
          /\ halt = "run"
          /\ \A i \in 1 .. NUM_SLABS :
                /\ HoldsCells(heap, i, PAGE_SIZE \div SLAB_SIZES[i])
                /\ heap.slabs[i].total = PAGE_SIZE \div SLAB_SIZES[i]
                /\ heap.slabs[i].used = 0
          /\ pmm.free_pages = FreePagesBeforeHeap - NUM_SLABS
          /\ FREE_BYTES = (FreePagesBeforeHeap - NUM_SLABS) * PAGE_SIZE
    /\ \A i \in 1 .. NUM_SLABS :
          (/\ hp.last.op = "alloc"
           /\ hp.last.size = SLAB_SIZES[i]
           /\ hp.last.n <= PAGE_SIZE \div SLAB_SIZES[i]) =>
              /\ hp.last.ret # NullPtr
              /\ hp.last.fresh
              /\ pmm = hp.last.pmm0
              /\ FREE_BYTES = hp.last.fb0
              /\ heap.slabs[i].total = PAGE_SIZE \div SLAB_SIZES[i]
              /\ HoldsCells(heap, i, (PAGE_SIZE \div SLAB_SIZES[i]) - hp.last.n)

\* the 512th allocation of the 8-byte class has been served
C35_Witness ==
    /\ hp.last.op = "alloc"
    /\ hp.last.size = 8
    /\ hp.last.n = PAGE_SIZE \div 8
    /\ hp.last.ret # NullPtr
    /\ Cardinality(hp.live) = PAGE_SIZE \div 8

\* ------------------------------------------------------------------- C36
IsMapStep == vlast'.n = calls + 1 /\ vlast'.op \in {"map", "map_shared"}

\* the fault of this step lies in an Anonymous region and is permitted
IsLazyFaultStep ==
    /\ IsFaultStep
    /\ FaultRegion # 0
    /\ spaces[vlast'.sid].vmas[FaultRegion].kind = Anonymous
    /\ ((vlast'.err \div 2) % 2 = 1
           => WRITABLE \in spaces[vlast'.sid].vmas[FaultRegion].flags)

\* C36: when map (called directly, by map_shared or by handle_page_fault)
\* must create an intermediate page table and the PMM has no free frame, the
\* kernel panics, and it panics in no other case; handle_page_fault on an
\* Anonymous region returns false for lack of memory only when the allocation
\* of the leaf frame itself fails, and with exactly one free frame and a
\* missing intermediate table it panics after having taken that frame.
C36_TableOom ==
    [][LET need == MissingTables(mem, spaces[vlast'.sid].pml4, vlast'.addr)
       IN /\ IsMapStep =>
                /\ halt' = "panic" <=> need > pmm.free_pages
                /\ halt' = "panic" => pmm'.free_pages = 0 /\ FREE_BYTES' = 0
          /\ IsLazyFaultStep =>
                /\ pmm.free_pages = 0 => vlast'.ret = FALSE /\ halt' = "run"
                /\ (vlast'.ret = FALSE /\ halt' = "run") => pmm.free_pages = 0
                /\ halt' = "panic" <=> (pmm.free_pages >= 1 /\ need > pmm.free_pages - 1)
                /\ (pmm.free_pages = 1 /\ need >= 1) =>
                      /\ halt' = "panic"
                      /\ pmm'.free_pages = 0
                      /\ FREE_BYTES' = FREE_BYTES - PAGE_SIZE
                      /\ MissingTables(mem', spaces[vlast'.sid].pml4, vlast'.addr) = need]_vars

\* a fault in an Anonymous region took the last free frame for the page and
\* then panicked for want of a page table
C36_Witness ==
    /\ vlast.op = "fault" /\ vlast.n = calls
    /\ halt = "panic"
    /\ pmm.free_pages = 0 /\ FREE_BYTES = 0
    /\ LET i == find_vma(spaces[vlast.sid], vlast.addr)
       IN i # 0 /\ spaces[vlast.sid].vmas[i].kind = Anonymous
    /\ MissingTables(mem, spaces[vlast.sid].pml4, vlast.addr) = 3
    /\ last.op = "alloc" /\ last.ret # None

\* ------------------------------------------------------------------- C37
\* C37: each virtual page of an Anonymous region is backed by at most one PMM
\* frame over its lifetime: handle_page_fault for a page that is already
\* present allocates no further frame and leaves translate as it was.
C37_PresentKept ==
    [][(/\ IsLazyFaultStep
        /\ translate(mem, spaces[vlast'.sid], vlast'.addr) # None)
       => /\ pmm' = pmm
          /\ FREE_BYTES' = FREE_BYTES
          /\ translate(mem', spaces[vlast'.sid], vlast'.addr)
                 = translate(mem, spaces[vlast'.sid], vlast'.addr)]_vars

\* ------------------------------------------------------------------- C38
\* C38: map_shared is all-or-nothing: when it returns false (64 regions are
\* recorded already) it has installed or changed no page-table entry and
\* taken no frame.
C38_SharedAllOrNothing ==
    [][(/\ vlast'.n = calls + 1 /\ vlast'.op = "map_shared"
        /\ halt' = "run"
        /\ vlast'.ret = FALSE)
       => /\ mem' = mem
          /\ pmm' = pmm
          /\ FREE_BYTES' = FREE_BYTES
          /\ spaces' = spaces]_vars

\* ------------------------------------------------------------------- C39
\* every context of S spins on a mutex held by a context of S
Deadlocked(S) ==
    \A c \in S : Wants(ctx[c]) # <<>> /\ Holders(Wants(ctx[c])) \cap S # {}

\* the timer handler has just been entered and has returned
TimerRan == cpu'.ran # cpu.ran /\ cpu'.ran.vec = 32

\* C39: no interleaving of concurrent heap alloc / dealloc, slab growth and
\* PMM alloc_pages / free_pages calls deadlocks: no set of contexts spins on
\* mutexes held inside the set; mutexes are only taken in the order slab-class
\* mutex, then PMM mutex; no context holds two slab-class mutexes or asks for
\* a slab-class mutex while it holds any mutex; each mutex has one holder at
\* most; and the timer interrupt handler takes and releases no mutex.
C39_NoDeadlock ==
    /\ [](/\ \A S \in (SUBSET Contexts) \ {{}} : ~Deadlocked(S)
          /\ \A c \in Contexts :
                /\ HeldBy(ctx[c]) \in {<<>>, <<PmmMutex>>}
                                         \cup {<<SlabMutex(i)>> : i \in 1 .. NUM_SLABS}
                                         \cup {<<SlabMutex(i), PmmMutex>> : i \in 1 .. NUM_SLABS}
                /\ ctx[c].pc = "lock_slab" => HeldBy(ctx[c]) = <<>>
          /\ \A i \in 1 .. NUM_SLABS : Cardinality(Holders(SlabMutex(i))) <= 1
          /\ Cardinality(Holders(PmmMutex)) <= 1)
    /\ [][TimerRan => ctx' = ctx]_vars

\* one context holds the mutex of the 2048-byte class and spins on the PMM
\* mutex, which the other context holds; the timer has interrupted meanwhile
C39_Witness ==
    /\ \E c \in Contexts : \E d \in Contexts :
          /\ ctx[c].pc = "lock_pmm" /\ HeldBy(ctx[c]) = <<SlabMutex(NUM_SLABS)>>
          /\ ctx[d].pc = "in_pmm" /\ HeldBy(ctx[d]) = <<PmmMutex>>
    /\ cpu.ran.vec = 32

\* ------------------------------------------------------------------- C40
\* the sum of max(size, align) over a set of allocations <<ptr, size, align>>
RECURSIVE EffectiveSum(_)
EffectiveSum(S) ==
    IF S = {} THEN 0
    ELSE LET x == CHOOSE y \in S : TRUE
         IN EffectiveSize(x[2], x[3]) + EffectiveSum(S \ {x})

\* C40: after any sequence of heap alloc and dealloc calls, alloc calls that
\* fail and return null included, heap::used() equals the sum of the effective
\* sizes max(size, align) of the allocations that are live.
C40_UsedIsLive == halt = "run" => heap.used = EffectiveSum(hp.live)
====
